---- MODULE Spec2Model ----
(***************************************************************************)
(* Zenith backend: the transaction rule engine (app.py) over the SQLite    *)
(* ledger store (database.py), the AI session cache                        *)
(* (backboard_service.py), and the endpoints of app.py that call it        *)
(* through the worker pool ai_executor, with the session check they share  *)
(* with every other endpoint.                                              *)
(*                                                                         *)
(* Every HTTP request runs on its own thread with its own SQLite           *)
(* connection (get_db).  Python's sqlite3 opens a transaction implicitly   *)
(* before the first INSERT/UPDATE of a connection; that statement takes    *)
(* the database write lock, which is held until commit() or until the      *)
(* connection is closed without a commit (close_db), which rolls back.     *)
(* Readers (WAL journal mode) see the last committed state.                *)
(***************************************************************************)
EXTENDS Integers, Sequences, FiniteSets, TLC

\* ------------------------------------------------------------------ bounds
MaxRows == 3
MaxChats == 2
MaxSeqChats == 3
MaxTasks == 5
MaxApiTasks == 2
OpeningBalance == 100

\* ------------------------------------------------------- program constants
StressThreshold == 7
AmountThreshold == 50
DefaultStress == 1
MaxWorkers == 4

\* The users of the ledger, the users and sections of the chat calls, the
\* threads that run chat calls (those of ai_executor and one more, which a
\* pool that keeps to max_workers never starts), the server threads that
\* handle ledger requests, those that handle requests of the AI endpoints,
\* and the stress levels a user sets.
Users == {1}
\* The ids of the users table: those of Users and the id AUTOINCREMENT gives
\* the next registration.
Accounts == {1, 2}
ChatUsers == {1, 2}
Topics == {"guardian"}
Workers == 1..(MaxWorkers + 1)
Slots == {1, 2}
ApiSlots == {1, 2}
StressLevels == {1, 7, 8}

\* ------------------------------------------------------------------ values
\* A Python number: an int/float, or the float nan (json.loads accepts the
\* literal NaN).
PyNum(n) == [nan |-> FALSE, v |-> n]
NaN == [nan |-> TRUE, v |-> 0]

\* A value of a REAL column: a number or NULL.
Num(n) == [null |-> FALSE, v |-> n]
NULL == [null |-> TRUE, v |-> 0]

\* sqlite3 binds a Python float nan as NULL, any other number as itself.
Bind(a) == IF a.nan THEN NULL ELSE Num(a.v)

\* Python comparisons with a float operand: every comparison with nan is False.
PyLe(a, n) == ~a.nan /\ a.v <= n
PyGt(a, n) == ~a.nan /\ a.v > n

\* SQL arithmetic and comparison: NULL is absorbing, and a comparison with
\* NULL is not true.
SqlAdd(x, y) == IF x.null \/ y.null THEN NULL ELSE Num(x.v + y.v)
SqlSub(x, y) == IF x.null \/ y.null THEN NULL ELSE Num(x.v - y.v)
SqlGe(x, y) == ~x.null /\ ~y.null /\ x.v >= y.v

\* The amounts a request body can carry.
Amounts == {PyNum(0), PyNum(50), PyNum(60), NaN}

\* The "balance" field of a request body: a number, or not in the body.
Given(a) == [given |-> TRUE, value |-> a]
NotGiven == [given |-> FALSE, value |-> PyNum(0)]
BalanceFields == {NotGiven} \cup {Given(a) : a \in Amounts}

\* The "stress_level" field of a request body: a level, or not in the body.
NoStress == [given |-> FALSE, value |-> 0]
StressFields == {NoStress, Given(8)}

\* The balance fields of the bodies of onboarding and of the survey POST.
SetFields == {NotGiven, Given(PyNum(50))}

\* data.get("balance", default)
Get(field, default) == IF field.given THEN field.value ELSE default

\* A value of users.token: the hex text a registration or login stored, or
\* NULL.
Tok(t) == [null |-> FALSE, v |-> t]
\* The token of the registration in the place of NULL.
RegisteredToken == [null |-> FALSE, v |-> "t1"]

NoToken == [null |-> TRUE, v |-> ""]
\* The users table has no row with the id.
NoRow == [null |-> TRUE, v |-> "no row"]

\* An Authorization header: absent, or a text; of a text the model keeps
\* whether it starts with "Bearer " and what is left without it.
NoHeader == [present |-> FALSE, bearer |-> FALSE, rest |-> ""]
Raw(t) == [present |-> TRUE, bearer |-> FALSE, rest |-> t]
Bearer(t) == [present |-> TRUE, bearer |-> TRUE, rest |-> t]

\* secrets.token_hex(16): the tokens a login can draw.
NewTokens == {"t1", "t2"}

\* The headers a request can carry: none, an empty one, an empty token, the
\* token user 1 registered with, a token nobody holds before a login draws it.
Headers == {NoHeader, Raw(""), Bearer(""), Bearer("t1"), Bearer("t2")}

\* The endpoints that ask for a session.
Endpoints ==
    {"logout", "onboarding", "survey", "user_data", "transaction_attempt",
     "update_balance", "update_stress", "ai_insights", "history",
     "pulse_history", "ai_brief", "ai_reset", "ai_chat", "purchase_evaluate",
     "purchase_execute", "add_income"}

VARIABLES
    balance,        \* users.balance, committed: user id -> REAL value
    stress_level,   \* users.stress_level, committed: user id -> integer
    transactions,   \* the transactions table, committed, in rowid order
    lock,           \* the holder of the database write lock, or 0
    req,            \* the request each server thread is handling
    ai_assistants,  \* the ai_assistants table: rows [name, assistant_id]
    user_threads,   \* the user_threads table: rows [user_id, assistant_name,
                    \*   thread_id, initialized]
    remote_ids,     \* ids the remote service has handed out so far
    remote_assistants, \* the remote service's assistants: [id, name]
    remote_threads, \* the remote service's threads: [id, assistant_id], with
                    \*   the (user, section) the creating call asked it for
    posted,         \* the messages posted to the remote service, in order
    call,           \* the chat_with_ai call each worker thread is running,
                    \*   with the server thread whose handler waits for it
                    \*   (0 for none)
    ncalls,         \* chat_with_ai calls begun so far
    token,          \* users.token: user id -> the stored session token, or
                    \*   NoRow for an id the table does not have yet
    survey_data,    \* users.survey_data: user id -> the keys of the stored survey
    ai_briefs,      \* the ai_briefs table: rows [user_id, section, brief]
    work_queue,     \* the queued tasks of ai_executor, oldest first: the
                    \*   arguments of chat_with_ai and the thread whose
                    \*   handler waits for the task, or 0
    api,            \* the request each server thread of the AI endpoints handles
    last_brief,     \* (user, section) -> what the last ai_brief response for
                    \*   the pair was, and the survey its request had read
    message,        \* ai_chat: the message of the request body, word by word
    censored_message, \* ai_chat: what censor_pii made of it
    raw,            \* send_message: the text of the remote reply, by characters
    cleaned         \* send_message: the text it returns for it

ledgerVars == <<balance, stress_level, transactions, lock, req>>
chatVars == <<ai_assistants, user_threads, remote_ids, remote_assistants,
              remote_threads, posted, call, ncalls>>
apiVars == <<token, survey_data, ai_briefs, work_queue, api, last_brief>>
\* The binding tables, the remote service and the count of calls.
cacheVars == <<ai_assistants, user_threads, remote_ids, remote_assistants,
               remote_threads, posted, ncalls>>
textVars == <<message, censored_message, raw, cleaned>>
vars == <<balance, stress_level, transactions, lock, req, ai_assistants,
          user_threads, remote_ids, remote_assistants, remote_threads, posted,
          call, ncalls, token, survey_data, ai_briefs, work_queue, api,
          last_brief, message, censored_message, raw, cleaned>>

Row(u, a, s) == [user_id |-> u, amount |-> Bind(a), status |-> s]

IdleReq == [pc |-> "idle", handler |-> "none", user |-> 0, amount |-> PyNum(0),
            stress |-> 0, body |-> {}, rowcount |-> 0, tx_balance |-> NULL,
            tx_rows |-> <<>>,
            http |-> 0, rolled_back |-> FALSE, status |-> "none",
            reason |-> "none", new_balance |-> NULL]

IdleCall == [pc |-> "idle", no |-> 0, owner |-> 0, user |-> 0, section |-> "none",
             survey |-> {}, saw |-> "none", assistant_id |-> 0,
             thread_id |-> 0, initialized |-> FALSE, result |-> "none"]

IdleApi == [pc |-> "idle", handler |-> "none", user |-> 0, section |-> "none",
            survey |-> {}, force |-> FALSE, future |-> "none",
            result |-> "none", http |-> 0, body |-> "none", verdict |-> "none"]

\* A survey answer "financial_goals" that is a list of numbers, not of
\* texts: the key of the survey and its value.
NumberGoals == "financial_goals: [1]"

\* Nothing is known of the last ai_brief response for a pair.
NoBrief == [text |-> "none", force |-> FALSE]

\* The tables, the remote service and the threads before the first request.
InitTables ==
    /\ ai_assistants = {}
    /\ user_threads = {}
    /\ remote_ids = 0
    /\ remote_assistants = {}
    /\ remote_threads = {}
    /\ posted = <<>>
    /\ call = [c \in Workers |-> IdleCall]
    /\ ncalls = 0
    /\ token = [u \in Accounts |-> IF u \in Users THEN Tok("t1") ELSE NoRow]
    /\ ai_briefs = {}
    /\ work_queue = <<>>
    /\ api = [r \in ApiSlots |-> IdleApi]
    /\ last_brief = [p \in Accounts \X Topics |-> NoBrief]
    /\ stress_level = [u \in Accounts |-> DefaultStress]
    /\ transactions = <<>>
    /\ lock = 0
    /\ req = [r \in Slots |-> IdleReq]

\* No text has gone through censor_pii or send_message.
InitTexts ==
    /\ message = <<>>
    /\ censored_message = <<>>
    /\ raw = <<>>
    /\ cleaned = <<>>

\* A registered user with an opening balance and no survey yet; for the id
\* that has no row yet the columns hold the defaults of the table.
Init ==
    /\ InitTables
    /\ InitTexts
    /\ survey_data = [u \in Accounts |-> {}]
    /\ balance = [u \in Accounts |-> IF u \in Users THEN Num(OpeningBalance)
                                      ELSE Num(0)]

\* A registered user who has saved the survey: the survey POST stored the
\* answers, with texts or with numbers as financial goals, and the balance
\* of its body, 0.0 for a body that names none, NULL for a nan.
InitSurveyed ==
    /\ InitTables
    /\ InitTexts
    /\ \E goals \in {"financial_goals", NumberGoals} :
          survey_data = [u \in Accounts |-> IF u \in Users
                                             THEN {"name", "spending_profile", goals}
                                             ELSE {}]
    /\ \E b \in {Num(0), NULL} :
          balance = [u \in Accounts |-> IF u \in Users THEN b ELSE Num(0)]

\* A server thread is free to take a request once its previous one has ended.
Free(r) == req[r].pc \in {"idle", "done"}
InFlight == {r \in Slots : ~Free(r)}

\* A new request is served by the first free thread.
Accepts(r) == Free(r) /\ \A r2 \in Slots : r2 < r => ~Free(r2)

\* A lookup that leaves out the WHERE clause: any header text finds a user.
AnyUserForAHeader(hdr) ==
    IF ~hdr.present \/ (~hdr.bearer /\ hdr.rest = "") THEN 0
    ELSE CHOOSE u \in Accounts : \A u2 \in Accounts : u <= u2

\* get_user_from_token: no user (0) without a header text; else the user
\* whose stored token equals the text without "Bearer " (a NULL token equals
\* nothing).
GetUserFromToken(hdr) ==
    IF ~hdr.present \/ (~hdr.bearer /\ hdr.rest = "") THEN 0
    ELSE LET rows == {u \in Accounts : ~token[u].null /\ token[u].v = hdr.rest}
         IN  IF rows = {} THEN 0
             ELSE CHOOSE u \in rows : \A u2 \in rows : u <= u2

\* The user row as read when the request arrives; of its columns only
\* transaction_attempt reads one, stress_level.
UserRow(h, u, a) ==
    [IdleReq EXCEPT !.handler = h, !.user = u, !.amount = a,
                    !.stress = IF h = "transaction_attempt"
                               THEN stress_level[u] ELSE 0]

\* The response is sent and the request is over; the thread keeps the status
\* code of its last response.
Respond(q, code) == [IdleReq EXCEPT !.pc = "done", !.http = code]

\* A connection that runs every statement in autocommit mode.
Autocommitted(committed, pending) == pending

\* What the other connections, and the database file, hold of a row while a
\* transaction that changed it is open: sqlite3.connect() leaves the
\* connection in the default mode, where changes wait for commit().
Uncommitted(committed, pending) == committed

\* An INSERT that is left out.
NotLogged(u, a, s) == <<>>

\* An INSERT that always writes the status ALLOWED.
LoggedAsAllowed(u, a, s) == <<Row(u, a, "ALLOWED")>>

\* INSERT INTO transactions (user_id, item_name, amount, status): the rows
\* the open transaction adds.
Logged(u, a, s) == <<Row(u, a, s)>>

\* ------------------------------------------------------ the rule engine
\* stress_level = user["stress_level"] if user["stress_level"] else 0
StressOrZero(s) == IF s # 0 THEN s ELSE 0

\* The stress rule with its first bound off by one.
StressImpulseFromSeven(s, a) ==
    StressOrZero(s) >= StressThreshold /\ PyGt(a, AmountThreshold)

\* if stress_level > 7 and amount > 50
StressImpulse(s, a) == StressOrZero(s) > StressThreshold /\ PyGt(a, AmountThreshold)

\* A debit that is applied although the WHERE clause failed.
BlockedButDebited(bal, amt) ==
    IF SqlGe(bal, amt)
    THEN [rowcount |-> 1, balance |-> SqlSub(bal, amt)]
    ELSE [rowcount |-> 0, balance |-> SqlSub(bal, amt)]

\* A debit that does not look at the balance.
UnconditionalDebit(bal, amt) == [rowcount |-> 1, balance |-> SqlSub(bal, amt)]

\* UPDATE users SET balance = balance - ? WHERE id = ? AND balance >= ?
\* on the one row of the user: the row count and the balance it leaves.
ConditionalDebit(bal, amt) ==
    IF SqlGe(bal, amt)
    THEN [rowcount |-> 1, balance |-> SqlSub(bal, amt)]
    ELSE [rowcount |-> 0, balance |-> bal]

\* A credit applied twice.
DoubleCredit(bal, amt) == SqlAdd(SqlAdd(bal, amt), amt)

\* UPDATE users SET balance = balance + ? WHERE id = ?
Credit(bal, amt) == SqlAdd(bal, amt)

\* The first INSERT/UPDATE of a connection begins its transaction and takes
\* the write lock; while another connection holds it the statement waits.
TakeLock(r) ==
    /\ lock = 0
    /\ lock' = r

\* if amount <= 0 (after the isinstance test of transaction_attempt, which
\* every number passes, and after float() in the two other handlers)
NotPositive(a) == PyLe(a, 0)

\* A request arrives at handler h: the token is looked up (the user row is
\* read), the body is parsed and the amount is checked.
Begin(r, h, hdr, a) ==
    LET u == GetUserFromToken(hdr)
    IN  /\ Accepts(r)
        /\ u # 0
        /\ Len(transactions) + Cardinality(InFlight) < MaxRows
        /\ req' = [req EXCEPT ![r] =
                     IF NotPositive(a) THEN Respond(UserRow(h, u, a), 400)
                     ELSE [UserRow(h, u, a) EXCEPT !.pc = "rules"]]
        /\ UNCHANGED <<balance, stress_level, transactions, lock>>
        /\ UNCHANGED <<chatVars, apiVars, textVars>>

TransactionAttempt_Begin(r, hdr, a) == Begin(r, "transaction_attempt", hdr, a)
PurchaseExecute_Begin(r, hdr, a) == Begin(r, "purchase_execute", hdr, a)
AddIncome_Begin(r, hdr, a) == Begin(r, "add_income", hdr, a)

\* user = get_user_from_token(); if not user: return 401, the first lines of
\* every endpoint that asks for a session.
Unauthorized(r, h, hdr) ==
    /\ Accepts(r)
    /\ h \in Endpoints
    /\ GetUserFromToken(hdr) = 0
    /\ req' = [req EXCEPT ![r] = Respond(req[r], 401)]
    /\ UNCHANGED <<balance, stress_level, transactions, lock>>
    /\ UNCHANGED <<chatVars, apiVars, textVars>>

\* The conditional UPDATE of a purchase.
Debit(r) ==
    LET q == req[r]
        d == ConditionalDebit(balance[q.user], Bind(q.amount))
    IN  /\ TakeLock(r)
        /\ req' = [req EXCEPT ![r] = [q EXCEPT !.pc = "insert",
                                               !.rowcount = d.rowcount,
                                               !.tx_balance = d.balance]]
        /\ balance' = [balance EXCEPT ![q.user] = Uncommitted(@, d.balance)]
        /\ UNCHANGED <<stress_level, transactions>>
        /\ UNCHANGED <<chatVars, apiVars, textVars>>

\* The INSERT that follows the UPDATE of a purchase: BLOCKED when no row was
\* updated, else SELECT balance and ALLOWED.
LogDebit(r) ==
    LET q == req[r]
    IN  /\ req' = [req EXCEPT ![r] =
                     IF q.rowcount = 0
                     THEN [q EXCEPT !.pc = "commit", !.status = "BLOCKED",
                                    !.reason = "Insufficient funds.",
                                    !.tx_rows = Logged(q.user, q.amount, "BLOCKED")]
                     ELSE [q EXCEPT !.pc = "commit", !.status = "ALLOWED",
                                    !.new_balance = q.tx_balance,
                                    !.tx_rows = Logged(q.user, q.amount, "ALLOWED")]]
        /\ UNCHANGED <<balance, stress_level, transactions, lock>>
        /\ UNCHANGED <<chatVars, apiVars, textVars>>

\* transaction_attempt, rule "stress": INSERT the BLOCKED row.
TransactionAttempt_StressBlock(r) ==
    LET q == req[r]
    IN  /\ q.pc = "rules" /\ q.handler = "transaction_attempt"
        /\ StressImpulse(q.stress, q.amount)
        /\ TakeLock(r)
        /\ req' = [req EXCEPT ![r] =
                     [q EXCEPT !.pc = "commit", !.status = "BLOCKED",
                               !.reason = "High stress impulse buy detected.",
                               !.tx_balance = balance[q.user],
                               !.tx_rows = Logged(q.user, q.amount, "BLOCKED")]]
        /\ UNCHANGED <<balance, stress_level, transactions>>
        /\ UNCHANGED <<chatVars, apiVars, textVars>>

TransactionAttempt_Update(r) ==
    /\ req[r].pc = "rules" /\ req[r].handler = "transaction_attempt"
    /\ ~StressImpulse(req[r].stress, req[r].amount)
    /\ Debit(r)

TransactionAttempt_Insert(r) ==
    /\ req[r].pc = "insert" /\ req[r].handler = "transaction_attempt"
    /\ LogDebit(r)

PurchaseExecute_Update(r) ==
    /\ req[r].pc = "rules" /\ req[r].handler = "purchase_execute"
    /\ Debit(r)

PurchaseExecute_Insert(r) ==
    /\ req[r].pc = "insert" /\ req[r].handler = "purchase_execute"
    /\ LogDebit(r)

AddIncome_Update(r) ==
    LET q == req[r]
    IN  /\ q.pc = "rules" /\ q.handler = "add_income"
        /\ TakeLock(r)
        /\ req' = [req EXCEPT ![r] =
                     [q EXCEPT !.pc = "insert", !.rowcount = 1,
                               !.tx_balance = Credit(balance[q.user], Bind(q.amount))]]
        /\ balance' = [balance EXCEPT ![q.user] =
                          Uncommitted(@, Credit(@, Bind(q.amount)))]
        /\ UNCHANGED <<stress_level, transactions>>
        /\ UNCHANGED <<chatVars, apiVars, textVars>>

AddIncome_Insert(r) ==
    LET q == req[r]
    IN  /\ q.pc = "insert" /\ q.handler = "add_income"
        /\ req' = [req EXCEPT ![r] =
                     [q EXCEPT !.pc = "commit", !.status = "INCOME",
                               !.new_balance = q.tx_balance,
                               !.tx_rows = Logged(q.user, q.amount, "INCOME")]]
        /\ UNCHANGED <<balance, stress_level, transactions, lock>>
        /\ UNCHANGED <<chatVars, apiVars, textVars>>

\* conn.commit(): the transaction's balance and rows become the stored state,
\* the write lock is released and the response is returned.
Commit(r) ==
    LET q == req[r]
    IN  /\ q.pc = "commit"
        /\ lock = r
        /\ balance' = [balance EXCEPT ![q.user] = q.tx_balance]
        /\ transactions' = transactions \o q.tx_rows
        /\ lock' = 0
        /\ req' = [req EXCEPT ![r] = Respond(q, 200)]
        /\ UNCHANGED stress_level
        /\ UNCHANGED <<chatVars, apiVars, textVars>>

\* A storage error (the busy timeout of a waiting statement, an I/O error)
\* raises out of the handler: the response is a 500 and close_db closes the
\* connection without a commit, which rolls the open transaction back.
StorageFailure(r) ==
    LET q == req[r]
    IN  /\ q.pc \in {"rules", "insert", "commit", "write"}
        /\ lock' = IF lock = r THEN 0 ELSE lock
        /\ req' = [req EXCEPT ![r] =
                     [Respond(q, 500) EXCEPT !.rolled_back = (lock = r)]]
        /\ UNCHANGED <<balance, stress_level, transactions>>
        /\ UNCHANGED <<chatVars, apiVars, textVars>>

\* A request arrives at a handler that, after the session check, runs one
\* transaction of its own: user = get_user_from_token() reads the user row,
\* the body is parsed, and the handler goes on with the id of the row it read.
Arrive(r, h, hdr, a, st, body) ==
    LET u == GetUserFromToken(hdr)
    IN  /\ Accepts(r)
        /\ u # 0
        /\ req' = [req EXCEPT ![r] =
                     [IdleReq EXCEPT !.pc = "write", !.handler = h, !.user = u,
                                     !.amount = a, !.stress = st, !.body = body]]
        /\ UNCHANGED <<balance, stress_level, transactions, lock>>
        /\ UNCHANGED <<chatVars, apiVars, textVars>>

\* The handler of thread r is h and is about to run its transaction; the
\* UPDATE takes the write lock, commit releases it.
Writes(r, h) ==
    /\ req[r].pc = "write"
    /\ req[r].handler = h
    /\ lock = 0

\* update_stress: the session check and data["new_stress_level"].
UpdateStress_Begin(r, hdr, st) ==
    Arrive(r, "update_stress", hdr, PyNum(0), st, {})

\* update_stress: UPDATE users SET stress_level = ? WHERE id = ?, the INSERT
\* into pulse_logs, commit.
UpdateStress_Write(r) ==
    LET q == req[r]
    IN  /\ Writes(r, "update_stress")
        /\ stress_level' = [stress_level EXCEPT ![q.user] = q.stress]
        /\ req' = [req EXCEPT ![r] = Respond(q, 200)]
        /\ UNCHANGED <<balance, transactions, lock>>
        /\ UNCHANGED <<chatVars, apiVars, textVars>>

\* ------------------------------------------------- the AI session cache
\* The survey profiles a caller passes: none (an empty dict is falsy), a
\* survey with a few answers.
Surveys == {{}, {"name", "spending_profile"}}

\* What the remote service answers to a create call: an id, a body without
\* an id, or nothing (transport failure, a body that is not JSON).
CreateOutcomes == {"ok", "noid", "exception"}
\* ... or an error status with a JSON body that carries an id, of nothing
\* the service has created.
CreateAnswers == CreateOutcomes \cup {"error_id"}
\* ... and to a message: 200 with text, 200 without text, another status, or
\* nothing.
PostOutcomes == {"ok", "empty", "status", "exception"}
\* ... where the text of a 200 is "reply" or starts with APPROVE.
HasText(outcome) == outcome \in {"ok", "approve"}

\* build_context_message: the labelled parts, later joined with " | "; empty
\* only without a survey.
BuildContextMessage(section, survey) ==
    IF survey = {} THEN <<>>
    ELSE <<"User">>
         \o (IF "age_range" \in survey THEN <<"Age">> ELSE <<>>)
         \o (IF "occupation" \in survey THEN <<"Occupation">> ELSE <<>>)
         \o (IF section = "scholar"
             THEN <<"Education">>
                  \o (IF "subjects" \in survey THEN <<"Interests">> ELSE <<>>)
                  \o <<"Learning style">>
                  \o (IF "study_goals" \in survey THEN <<"Study goals">> ELSE <<>>)
             ELSE IF section = "guardian"
             THEN <<"Spending profile", "Income", "Savings">>
                  \o (IF "financial_goals" \in survey THEN <<"Financial goals">> ELSE <<>>)
                  \o <<"Balance">>
             ELSE IF section = "vitals"
             THEN <<"Exercise", "Sleep", "Diet">>
                  \o (IF "health_goals" \in survey THEN <<"Health goals">> ELSE <<>>)
                  \o <<"Stress">>
             ELSE <<>>)

\* INSERT OR REPLACE under a UNIQUE constraint: the rows that conflict with
\* the new row on the unique columns are deleted, then it is inserted.
SameTopic(x, y) == x.name = y.name
SamePair(x, y) == x.user_id = y.user_id /\ x.assistant_name = y.assistant_name
ReplaceAssistant(table, row) == {x \in table : ~SameTopic(x, row)} \cup {row}
\* An INSERT that adds its row beside the one that is there.
InsertThread(table, row) == table \cup {row}

ReplaceThread(table, row) == {x \in table : ~SamePair(x, row)} \cup {row}

\* SELECT ... WHERE name = ? / WHERE user_id = ? AND assistant_name = ?
\* A lookup that never finds the stored assistant.
NoAssistantRows(section) == {}

AssistantRows(section) == {x \in ai_assistants : x.name = section}
\* A lookup that never finds the stored thread.
NoThreadRows(u, section) == {}

ThreadRows(u, section) ==
    {x \in user_threads : x.user_id = u /\ x.assistant_name = section}

\* An UPDATE that marks nothing.
LeaveUninitialized(table, u, section) == table

\* UPDATE user_threads SET initialized = 1 WHERE user_id = ? AND assistant_name = ?
SetInitialized(table, u, section) ==
    {IF x.user_id = u /\ x.assistant_name = section
     THEN [x EXCEPT !.initialized = TRUE] ELSE x : x \in table}

CallsInFlight == {c \in Workers : call[c].pc \notin {"idle", "done", "raised"}}
WorkerFree(c) == call[c].pc \in {"idle", "done", "raised"}
\* A submitted call runs on the first free worker.
Takes(c) == WorkerFree(c) /\ \A c2 \in Workers : c2 < c => ~WorkerFree(c2)

\* chat_with_ai returns.
Return(q, text) ==
    [IdleCall EXCEPT !.pc = "done", !.owner = q.owner, !.result = text]

\* chat_with_ai raises.
Raise(q, text) ==
    [IdleCall EXCEPT !.pc = "raised", !.owner = q.owner, !.result = text]

\* build_context_message: ', '.join(goals) raises TypeError for the section
\* whose goals are a list of numbers.
JoinRaises(section, survey) == section = "guardian" /\ NumberGoals \in survey
JoinErrorText == "sequence item 0: expected str instance, int found"

\* chat_with_ai, after get_or_create_thread returned a thread id:
\* "if not initialized and survey_data", build_context_message, "if context".
AfterThread(q) ==
    IF ~q.initialized /\ q.survey # {}
    THEN IF JoinRaises(q.section, q.survey) THEN Raise(q, JoinErrorText)
         ELSE IF BuildContextMessage(q.section, q.survey) # <<>>
         THEN [q EXCEPT !.pc = "send_priming"]
         ELSE [q EXCEPT !.pc = "send_message"]
    ELSE [q EXCEPT !.pc = "send_message"]

\* chat_with_ai(user_id, section, message, survey_data) is called.
StartCall(c, u, section, survey) ==
    /\ Takes(c)
    /\ ncalls' = ncalls + 1
    /\ call' = [call EXCEPT ![c] =
                  [IdleCall EXCEPT !.pc = "get_thread", !.no = ncalls + 1,
                                   !.user = u, !.section = section,
                                   !.survey = survey]]
    /\ UNCHANGED <<ai_assistants, user_threads, remote_ids, remote_assistants, remote_threads, posted>>
    /\ UNCHANGED <<ledgerVars, apiVars, textVars>>

Chat_Begin(c, u, section, survey) ==
    /\ ncalls < MaxChats
    /\ StartCall(c, u, section, survey)

\* get_or_create_thread: the SELECT on user_threads.
GetThread_Select(c) ==
    LET q == call[c]
        rows == ThreadRows(q.user, q.section)
    IN  /\ q.pc = "get_thread"
        /\ IF rows # {}
           THEN \E row \in rows :
                  call' = [call EXCEPT ![c] =
                             AfterThread([q EXCEPT !.thread_id = row.thread_id,
                                                   !.initialized = row.initialized,
                                                   !.saw = "row"])]
           ELSE call' = [call EXCEPT ![c] = [q EXCEPT !.pc = "get_assistant"]]
        /\ UNCHANGED <<ai_assistants, user_threads, remote_ids, remote_assistants, remote_threads,
                       posted, ncalls>>
        /\ UNCHANGED <<ledgerVars, apiVars, textVars>>

\* get_or_create_assistant: the SELECT on ai_assistants.
GetAssistant_Select(c) ==
    LET q == call[c]
        rows == AssistantRows(q.section)
    IN  /\ q.pc = "get_assistant"
        /\ IF rows # {}
           THEN \E row \in rows :
                  call' = [call EXCEPT ![c] =
                             [q EXCEPT !.pc = "create_thread",
                                       !.assistant_id = row.assistant_id]]
           ELSE call' = [call EXCEPT ![c] = [q EXCEPT !.pc = "create_assistant"]]
        /\ UNCHANGED <<ai_assistants, user_threads, remote_ids, remote_assistants, remote_threads,
                       posted, ncalls>>
        /\ UNCHANGED <<ledgerVars, apiVars, textVars>>

\* data.get("assistant_id") or data.get("id") / data.get("thread_id") or
\* data.get("id"): the id in the body of the answer, whatever its status; 0
\* for a body without one.
AnswerId(outcome, next_id) ==
    IF outcome \in {"ok", "error_id"} THEN next_id ELSE 0

\* A test that takes an answer without an id for one with an id.
AnyAnswerHasId(outcome, id) == outcome # "exception"

\* "if assistant_id:" / "if thread_id:", reached unless requests.post or
\* res.json() raised.
HasId(outcome, id) == outcome # "exception" /\ id # 0

\* get_or_create_assistant: POST /assistants.  Without an id the function
\* returns None, get_or_create_thread returns (None, False) and chat_with_ai
\* the unavailability text.
GetAssistant_Create(c, outcome) ==
    LET q == call[c]
        id == AnswerId(outcome, remote_ids + 1)
    IN  /\ q.pc = "create_assistant"
        /\ remote_ids' = IF id # 0 THEN id ELSE remote_ids
        /\ remote_assistants' =
              IF outcome = "ok"
              THEN remote_assistants \cup {[id |-> id, name |-> q.section]}
              ELSE remote_assistants
        /\ call' = [call EXCEPT ![c] =
                      IF HasId(outcome, id)
                      THEN [q EXCEPT !.pc = "store_assistant", !.assistant_id = id]
                      ELSE Return(q, "Sorry, the AI service is currently unavailable.")]
        /\ UNCHANGED <<ai_assistants, user_threads, remote_threads, posted, ncalls>>
        /\ UNCHANGED <<ledgerVars, apiVars, textVars>>

\* get_or_create_assistant: INSERT OR REPLACE INTO ai_assistants, commit.
\* When another connection holds the write lock for longer than the busy
\* timeout (10 s) the INSERT raises inside the try: nothing is stored, the
\* function returns None and chat_with_ai the unavailability text.
GetAssistant_Store(c, locked) ==
    LET q == call[c]
    IN  /\ q.pc = "store_assistant"
        /\ ai_assistants' =
              IF locked THEN ai_assistants
              ELSE ReplaceAssistant(ai_assistants,
                      [name |-> q.section, assistant_id |-> q.assistant_id])
        /\ call' = [call EXCEPT ![c] =
                      IF locked
                      THEN Return(q, "Sorry, the AI service is currently unavailable.")
                      ELSE [q EXCEPT !.pc = "create_thread"]]
        /\ UNCHANGED <<user_threads, remote_ids, remote_assistants, remote_threads, posted, ncalls>>
        /\ UNCHANGED <<ledgerVars, apiVars, textVars>>

\* The remote service knows the assistant, the thread.
AssistantExists(id) == \E a \in remote_assistants : a.id = id
ThreadExists(id) == \E t \in remote_threads : t.id = id

\* get_or_create_thread: POST /assistants/{assistant_id}/threads.  The remote
\* service creates a thread only under an assistant it knows.
GetThread_Create(c, outcome) ==
    LET q == call[c]
        id == AnswerId(outcome, remote_ids + 1)
    IN  /\ q.pc = "create_thread"
        /\ outcome = "ok" => AssistantExists(q.assistant_id)
        /\ remote_ids' = IF id # 0 THEN id ELSE remote_ids
        /\ remote_threads' =
              IF outcome = "ok"
              THEN remote_threads \cup
                       {[id |-> id, assistant_id |-> q.assistant_id,
                         user |-> q.user, section |-> q.section]}
              ELSE remote_threads
        /\ call' = [call EXCEPT ![c] =
                      IF HasId(outcome, id)
                      THEN [q EXCEPT !.pc = "store_thread", !.thread_id = id]
                      ELSE Return(q, "Sorry, the AI service is currently unavailable.")]
        /\ UNCHANGED <<ai_assistants, user_threads, remote_assistants, posted, ncalls>>
        /\ UNCHANGED <<ledgerVars, apiVars, textVars>>

\* get_or_create_thread: INSERT OR REPLACE INTO user_threads (.., 0), commit;
\* returns (thread_id, False).  With the database locked past the busy
\* timeout the INSERT raises inside the try: nothing is stored and the
\* function returns (None, False).
GetThread_Store(c, locked) ==
    LET q == call[c]
    IN  /\ q.pc = "store_thread"
        /\ user_threads' =
              IF locked THEN user_threads
              ELSE ReplaceThread(user_threads,
                      [user_id |-> q.user, assistant_name |-> q.section,
                       thread_id |-> q.thread_id, initialized |-> FALSE])
        /\ call' = [call EXCEPT ![c] =
                      IF locked
                      THEN Return(q, "Sorry, the AI service is currently unavailable.")
                      ELSE AfterThread([q EXCEPT !.initialized = FALSE])]
        /\ UNCHANGED <<ai_assistants, remote_ids, remote_assistants, remote_threads, posted, ncalls>>
        /\ UNCHANGED <<ledgerVars, apiVars, textVars>>

\* A request POST /threads/{thread_id}/messages as the remote service sees
\* it (it answers 200 only for a thread it knows), with the call that sent it and the user and section it was sent for.
Message(q, kind, outcome) ==
    [thread_id |-> q.thread_id, kind |-> kind, accepted |-> HasText(outcome),
     call |-> q.no, user |-> q.user, section |-> q.section,
     fresh |-> q.saw = "none", profile |-> q.survey # {}]

\* chat_with_ai: send_message(thread_id, "[User Profile] ..."); what it
\* returns is dropped.
Chat_SendPriming(c, outcome) ==
    LET q == call[c]
    IN  /\ q.pc = "send_priming"
        /\ (HasText(outcome) \/ outcome = "empty") => ThreadExists(q.thread_id)
        /\ posted' = Append(posted, Message(q, "priming", outcome))
        /\ call' = [call EXCEPT ![c] = [q EXCEPT !.pc = "mark_initialized"]]
        /\ UNCHANGED <<ai_assistants, user_threads, remote_ids, remote_assistants, remote_threads, ncalls>>
        /\ UNCHANGED <<ledgerVars, apiVars, textVars>>

\* str() of the sqlite3.OperationalError of a write that waited for the
\* write lock longer than the busy timeout.
LockedErrorText == "database is locked"

\* chat_with_ai: UPDATE user_threads SET initialized = 1, commit.  Here no
\* try is around the write: with the database locked past the busy timeout
\* chat_with_ai raises.
Chat_MarkInitialized(c, locked) ==
    LET q == call[c]
    IN  /\ q.pc = "mark_initialized"
        /\ user_threads' = IF locked THEN user_threads
                           ELSE SetInitialized(user_threads, q.user, q.section)
        /\ call' = [call EXCEPT ![c] =
                      IF locked THEN Raise(q, LockedErrorText)
                      ELSE [q EXCEPT !.pc = "send_message"]]
        /\ UNCHANGED <<ai_assistants, remote_ids, remote_assistants, remote_threads, posted, ncalls>>
        /\ UNCHANGED <<ledgerVars, apiVars, textVars>>

\* send_message: the text it returns for each answer of the remote service.
SendResult(outcome) ==
    CASE outcome = "ok" -> "reply"
      [] outcome = "approve" -> "APPROVE: reply"
      [] outcome = "empty" -> "Sorry, I couldn't process that right now."
      [] outcome = "status" -> "Sorry, the AI returned an error. Please try again."
      [] OTHER -> "Sorry, the AI is temporarily unavailable. Please try again."

\* chat_with_ai: result = send_message(thread_id, message); return result.
Chat_SendMessage(c, outcome) ==
    LET q == call[c]
    IN  /\ q.pc = "send_message"
        /\ (HasText(outcome) \/ outcome = "empty") => ThreadExists(q.thread_id)
        /\ posted' = Append(posted, Message(q, "message", outcome))
        /\ call' = [call EXCEPT ![c] = Return(q, SendResult(outcome))]
        /\ UNCHANGED <<ai_assistants, user_threads, remote_ids, remote_assistants, remote_threads, ncalls>>
        /\ UNCHANGED <<ledgerVars, apiVars, textVars>>

\* ------------------------------------------ the AI endpoints and the pool
\* The texts the endpoints answer with in place of a reply.
ChatTimeoutText == "Sorry, the AI is taking too long to respond. Please try again."
BriefTroubleText ==
    "I'm having trouble generating your brief right now. Please try refreshing in a moment."
CompleteSurveyText ==
    "Complete your survey first so I can personalize your experience.\n> What can Zenith do for me?\n> How does the AI personalization work?\n> What data do you need from me?"
\* f"AI evaluation failed: {str(e)}", before str(e).
EvaluateFailedText == "AI evaluation failed: "
\* str() of the TimeoutError of future.result.
TimeoutErrorText == ""
\* The body of the 500 that Flask answers for an exception no handler catches.
ServerErrorText == "Internal Server Error"
ResetDoneText == "AI cache cleared. Next request will create fresh assistants."

ApiFree(r) == api[r].pc \in {"idle", "done"}
\* A new request is served by the first free thread.
ApiAccepts(r) == ApiFree(r) /\ \A r2 \in ApiSlots : r2 < r => ~ApiFree(r2)

\* jsonify(...), code: the request is over; the thread keeps what it answered.
ApiRespond(q, code, body, verdict) ==
    [IdleApi EXCEPT !.pc = "done", !.handler = q.handler, !.http = code,
                    !.body = body, !.verdict = verdict]

\* The arguments of a submitted chat_with_ai call, with the thread whose
\* handler waits for it (0 once the handler gave up).
Task(r, q) == [owner |-> r, user |-> q.user, section |-> q.section,
               survey |-> q.survey]

\* The worker threads that run a task: from the start of chat_with_ai until
\* the thread has set the future.
Busy == {c \in Workers : call[c].pc # "idle"}

\* The chat_with_ai executions in progress.
Running == Cardinality(Busy)

\* The tasks in progress whose handler gave up.
Orphans == {c \in Busy : call[c].owner = 0}

\* The requests that are past the session check and have not submitted yet.
Pending == Cardinality({r \in ApiSlots : api[r].pc \in {"cache", "submit"}})

\* Fewer than n chat_with_ai calls have begun, are queued, or are about to
\* be submitted.
TasksBelow(n) == ncalls + Len(work_queue) + Pending < n

\* A pool that starts a thread for every task.
PoolAlwaysSpawns == TRUE

\* ThreadPoolExecutor(max_workers=4): a task starts only while fewer than
\* max_workers are running.
PoolHasIdleWorker == Running < MaxWorkers

\* A request arrives at an AI endpoint: user = get_user_from_token() reads
\* the user row, and the handler goes on with that row.
ApiArrive(r, hdr) ==
    /\ ApiAccepts(r)
    /\ GetUserFromToken(hdr) # 0

\* The user row as the handler h read it.
ApiUserRow(h, hdr, section, force) ==
    [IdleApi EXCEPT !.handler = h, !.user = GetUserFromToken(hdr),
                    !.section = section, !.force = force,
                    !.survey = survey_data[GetUserFromToken(hdr)]]

\* ai_executor.submit(chat_with_ai, user["id"], section, ..., survey): the
\* task is queued and the handler goes on to wait for its future.
Submit(r, h) ==
    LET q == api[r]
    IN  /\ q.pc = "submit"
        /\ q.handler = h
        /\ work_queue' = Append(work_queue, Task(r, q))
        /\ api' = [api EXCEPT ![r] = [q EXCEPT !.pc = "waiting", !.future = "queued"]]
        /\ UNCHANGED <<token, survey_data, ai_briefs, last_brief>>
        /\ UNCHANGED <<ledgerVars, chatVars, textVars>>

\* A worker thread takes the oldest queued task and calls chat_with_ai with
\* its arguments; the statements of the call are those of Chat_Begin on.
Task_Start(c) ==
    LET task == Head(work_queue)
    IN  /\ work_queue # <<>>
        /\ PoolHasIdleWorker
        /\ call[c].pc = "idle"
        /\ \A c2 \in Workers : c2 < c => call[c2].pc # "idle"
        /\ work_queue' = Tail(work_queue)
        /\ ncalls' = ncalls + 1
        /\ call' = [call EXCEPT ![c] =
                      [IdleCall EXCEPT !.pc = "get_thread", !.no = ncalls + 1,
                                       !.owner = task.owner, !.user = task.user,
                                       !.section = task.section,
                                       !.survey = task.survey]]
        /\ api' = IF task.owner = 0 THEN api
                  ELSE [api EXCEPT ![task.owner].future = "running"]
        /\ UNCHANGED <<ai_assistants, user_threads, remote_ids, remote_assistants,
                       remote_threads, posted>>
        /\ UNCHANGED <<token, survey_data, ai_briefs, last_brief>>
        /\ UNCHANGED <<ledgerVars, textVars>>

\* chat_with_ai has ended on worker thread c: the thread sets the future the
\* handler waits for to what the call returned or raised.
Task_Finish(c) ==
    LET q == call[c]
    IN  /\ q.pc \in {"done", "raised"}
        /\ q.owner # 0
        /\ api' = [api EXCEPT ![q.owner].future = IF q.pc = "raised"
                                                  THEN "raised" ELSE "returned",
                              ![q.owner].result = q.result]
        /\ call' = [call EXCEPT ![c] = IdleCall]
        /\ UNCHANGED <<token, survey_data, ai_briefs, work_queue, last_brief>>
        /\ UNCHANGED <<ledgerVars, cacheVars, textVars>>

\* chat_with_ai has ended on worker thread c after its handler gave up:
\* nobody reads the future.
Task_FinishAbandoned(c) ==
    LET q == call[c]
    IN  /\ q.pc \in {"done", "raised"}
        /\ q.owner = 0
        /\ call' = [call EXCEPT ![c] = IdleCall]
        /\ UNCHANGED apiVars
        /\ UNCHANGED <<ledgerVars, cacheVars, textVars>>

\* future.result(timeout=60): the text the call returned, the exception it
\* raised, or TimeoutError while the task is still queued or running.
CanEnd(r, timed_out) ==
    /\ api[r].pc = "waiting"
    /\ IF timed_out
       THEN api[r].future \in {"queued", "running"}
       ELSE api[r].future \in {"returned", "raised"}

FutureResult(r, timed_out) ==
    IF timed_out THEN [raised |-> TRUE, text |-> TimeoutErrorText]
    ELSE [raised |-> api[r].future = "raised", text |-> api[r].result]

\* The pool after handler r went on: a task that timed out is not cancelled,
\* it stays queued or runs to its end with nobody waiting for it.
PoolAfter(r, timed_out) ==
    /\ work_queue' = [i \in 1..Len(work_queue) |->
                        IF work_queue[i].owner = r
                        THEN [work_queue[i] EXCEPT !.owner = 0]
                        ELSE work_queue[i]]
    /\ call' = [c \in Workers |->
                  IF call[c].owner = r THEN [call[c] EXCEPT !.owner = 0]
                  ELSE call[c]]

\* -------------------------------------------------------------- ai_chat
\* ai_chat up to the submit: the session check; the survey is that of the
\* user row it read.
AiChat_Begin(r, hdr, section) ==
    /\ ApiArrive(r, hdr)
    /\ api' = [api EXCEPT ![r] =
                 [ApiUserRow("ai_chat", hdr, section, FALSE) EXCEPT !.pc = "submit"]]
    /\ UNCHANGED <<token, survey_data, ai_briefs, work_queue, last_brief>>
    /\ UNCHANGED <<ledgerVars, chatVars, textVars>>

AiChat_Submit(r) == Submit(r, "ai_chat")

\* ai_chat: response = future.result(timeout=60), or the fixed text on any
\* exception.
AiChat_End(r, timed_out) ==
    LET q == api[r]
        got == FutureResult(r, timed_out)
    IN  /\ q.handler = "ai_chat"
        /\ CanEnd(r, timed_out)
        /\ api' = [api EXCEPT ![r] =
                     ApiRespond(q, 200,
                                IF got.raised THEN ChatTimeoutText ELSE got.text,
                                "none")]
        /\ PoolAfter(r, timed_out)
        /\ UNCHANGED <<token, survey_data, ai_briefs, last_brief>>
        /\ UNCHANGED <<ledgerVars, cacheVars, textVars>>

\* ------------------------------------------------------------- ai_brief
\* What the last ai_brief answer for a pair said and whether its request had
\* force set.
Answered(text, q) == [text |-> text, force |-> q.force]

\* SELECT brief FROM ai_briefs WHERE user_id = ? AND section = ?
CachedBrief(u, section) ==
    {x \in ai_briefs : x.user_id = u /\ x.section = section}

\* INSERT OR REPLACE INTO ai_briefs under UNIQUE(user_id, section)
ReplaceBrief(table, row) ==
    {x \in table : ~(x.user_id = row.user_id /\ x.section = row.section)}
        \cup {row}

\* ai_brief answers text to the request q of thread r.
BriefAnswer(r, q, text) ==
    /\ api' = [api EXCEPT ![r] = ApiRespond(q, 200, text, "none")]
    /\ last_brief' = [last_brief EXCEPT ![<<q.user, q.section>>] =
                         Answered(text, q)]

\* ai_brief after the cache: "if not survey" on the survey of the user row it
\* read; a user without survey data gets the fixed text.  Else the handler
\* calls build_context_message(section, survey) for the prompt, outside any
\* try: where the join raises the request ends with a 500 and nothing is
\* submitted; else the handler goes on to submit chat_with_ai.
BriefWithoutCache(r, q) ==
    IF q.survey = {}
    THEN BriefAnswer(r, q, CompleteSurveyText)
    ELSE /\ api' = [api EXCEPT ![r] =
                      IF JoinRaises(q.section, q.survey)
                      THEN ApiRespond(q, 500, ServerErrorText, "none")
                      ELSE [q EXCEPT !.pc = "submit"]]
         /\ UNCHANGED last_brief

\* ai_brief: the session check; with force the cache is not read.
AiBrief_Begin(r, hdr, section, force) ==
    LET q == ApiUserRow("ai_brief", hdr, section, force)
    IN  /\ ApiArrive(r, hdr)
        /\ IF force
           THEN BriefWithoutCache(r, q)
           ELSE /\ api' = [api EXCEPT ![r] = [q EXCEPT !.pc = "cache"]]
                /\ UNCHANGED last_brief
        /\ UNCHANGED <<token, survey_data, ai_briefs, work_queue>>
        /\ UNCHANGED <<ledgerVars, chatVars, textVars>>

\* ai_brief without force: the SELECT on ai_briefs; the stored brief is
\* served if there is one.
AiBrief_Cache(r) ==
    LET q == api[r]
        cached == CachedBrief(q.user, q.section)
    IN  /\ q.pc = "cache"
        /\ IF cached # {}
           THEN \E row \in cached : BriefAnswer(r, q, row.brief)
           ELSE BriefWithoutCache(r, q)
        /\ UNCHANGED <<token, survey_data, ai_briefs, work_queue>>
        /\ UNCHANGED <<ledgerVars, chatVars, textVars>>

AiBrief_Submit(r) == Submit(r, "ai_brief")

\* ai_brief: response = future.result(timeout=60), or the fixed text on any
\* exception; the handler goes on to store it, and a task that timed out
\* goes on beside it.
AiBrief_End(r, timed_out) ==
    LET q == api[r]
        got == FutureResult(r, timed_out)
        text == IF got.raised THEN BriefTroubleText ELSE got.text
    IN  /\ q.handler = "ai_brief"
        /\ CanEnd(r, timed_out)
        /\ api' = [api EXCEPT ![r] = [q EXCEPT !.pc = "store", !.future = "none",
                                               !.result = text]]
        /\ PoolAfter(r, timed_out)
        /\ UNCHANGED <<token, survey_data, ai_briefs, last_brief>>
        /\ UNCHANGED <<ledgerVars, cacheVars, textVars>>

\* ai_brief from the INSERT on: the response is stored as the brief of
\* (user, section), committed and returned.  The INSERT is outside the try:
\* with the database locked past the busy timeout the request ends with a
\* 500 and no brief is stored.
AiBrief_Store(r, locked) ==
    LET q == api[r]
    IN  /\ q.pc = "store"
        /\ IF locked
           THEN /\ api' = [api EXCEPT ![r] =
                             ApiRespond(q, 500, ServerErrorText, "none")]
                /\ UNCHANGED <<ai_briefs, last_brief>>
           ELSE /\ ai_briefs' = ReplaceBrief(ai_briefs,
                                   [user_id |-> q.user, section |-> q.section,
                                    brief |-> q.result])
                /\ BriefAnswer(r, q, q.result)
        /\ UNCHANGED <<token, survey_data, work_queue>>
        /\ UNCHANGED <<ledgerVars, chatVars, textVars>>

\* ---------------------------------------------------- purchase_evaluate
\* ai_response.upper().startswith("APPROVE")
StartsWithApprove(text) == text = "APPROVE: reply"

\* purchase_evaluate up to the submit, always for the section "guardian":
\* the session check, float() of the amount of the body, which raises for a
\* text that is no number, and f"{balance:.2f}" of the balance of the user
\* row, which raises for a NULL; both before the try.
PurchaseEvaluate_Begin(r, hdr, numeric) ==
    LET q == ApiUserRow("purchase_evaluate", hdr, "guardian", FALSE)
    IN  /\ ApiArrive(r, hdr)
        /\ api' = [api EXCEPT ![r] =
                     IF ~numeric \/ balance[q.user].null
                     THEN ApiRespond(q, 500, ServerErrorText, "none")
                     ELSE [q EXCEPT !.pc = "submit"]]
        /\ UNCHANGED <<token, survey_data, ai_briefs, work_queue, last_brief>>
        /\ UNCHANGED <<ledgerVars, chatVars, textVars>>

PurchaseEvaluate_Submit(r) == Submit(r, "purchase_evaluate")

\* purchase_evaluate from future.result on: a verdict parsed from the text,
\* or a 500 with the text of the exception.
PurchaseEvaluate_End(r, timed_out) ==
    LET q == api[r]
        got == FutureResult(r, timed_out)
    IN  /\ q.handler = "purchase_evaluate"
        /\ CanEnd(r, timed_out)
        /\ api' = [api EXCEPT ![r] =
                     IF got.raised
                     THEN ApiRespond(q, 500, EvaluateFailedText \o got.text, "none")
                     ELSE ApiRespond(q, 200, got.text,
                                     IF StartsWithApprove(got.text)
                                     THEN "approve" ELSE "hold")]
        /\ PoolAfter(r, timed_out)
        /\ UNCHANGED <<token, survey_data, ai_briefs, last_brief>>
        /\ UNCHANGED <<ledgerVars, cacheVars, textVars>>

\* ------------------------------------------------------------- ai_reset
\* reset_ai_cache is defined without a parameter: a call that passes
\* arguments raises TypeError before the body runs; a call without them
\* deletes every row of both tables.
ResetAiCache(args, assistants, threads) ==
    IF Len(args) # 0
    THEN [raised |-> TRUE, ai_assistants |-> assistants, user_threads |-> threads]
    ELSE [raised |-> FALSE, ai_assistants |-> {}, user_threads |-> {}]

\* ai_reset: reset_ai_cache(user["id"]), then the confirmation; an exception
\* ends the request with a 500.
AiReset(r, hdr) ==
    LET u == GetUserFromToken(hdr)
        q == [IdleApi EXCEPT !.handler = "ai_reset", !.user = u]
        out == ResetAiCache(<<u>>, ai_assistants, user_threads)
    IN  /\ ApiAccepts(r)
        /\ u # 0
        /\ ai_assistants' = out.ai_assistants
        /\ user_threads' = out.user_threads
        /\ api' = [api EXCEPT ![r] =
                     IF out.raised
                     THEN ApiRespond(q, 500, ServerErrorText, "none")
                     ELSE ApiRespond(q, 200, ResetDoneText, "none")]
        /\ UNCHANGED <<remote_ids, remote_assistants, remote_threads, posted,
                       call, ncalls>>
        /\ UNCHANGED <<token, survey_data, ai_briefs, work_queue, last_brief>>
        /\ UNCHANGED <<ledgerVars, textVars>>

\* --------------------------------------------------------------- survey
\* json.dumps(data): the stored survey is the whole body, the balance and
\* the stress level included when the body has them.
StoredSurvey(body, field, stress) ==
    body \cup (IF field.given THEN {"balance"} ELSE {})
         \cup (IF stress.given THEN {"stress_level"} ELSE {})

\* survey (POST): the session check, balance = data.get("balance", 0.0),
\* stress_level = data.get("stress_level", 1).
Survey_Begin(r, hdr, body, field, stress) ==
    Arrive(r, "survey", hdr, Get(field, PyNum(0)), Get(stress, DefaultStress),
           StoredSurvey(body, field, stress))

\* survey (POST): name, spending_profile, balance, stress_level and the body
\* are stored in one UPDATE ... WHERE id = ?, then committed.
Survey_Write(r) ==
    LET q == req[r]
    IN  /\ Writes(r, "survey")
        /\ balance' = [balance EXCEPT ![q.user] = Bind(q.amount)]
        /\ stress_level' = [stress_level EXCEPT ![q.user] = q.stress]
        /\ survey_data' = [survey_data EXCEPT ![q.user] = q.body]
        /\ req' = [req EXCEPT ![r] = Respond(q, 200)]
        /\ UNCHANGED <<transactions, lock>>
        /\ UNCHANGED <<token, ai_briefs, work_queue, api, last_brief>>
        /\ UNCHANGED <<chatVars, textVars>>

\* ----------------------------------------------------------- onboarding
\* onboarding: the session check and balance = data.get("balance", 0.0).
Onboarding_Begin(r, hdr, field) ==
    Arrive(r, "onboarding", hdr, Get(field, PyNum(0)), 0, {})

\* onboarding: name, spending_profile and balance are stored in one UPDATE
\* ... WHERE id = ?, then committed; of the three the model keeps the balance.
Onboarding_Write(r) ==
    LET q == req[r]
    IN  /\ Writes(r, "onboarding")
        /\ balance' = [balance EXCEPT ![q.user] = Bind(q.amount)]
        /\ req' = [req EXCEPT ![r] = Respond(q, 200)]
        /\ UNCHANGED <<stress_level, transactions, lock>>
        /\ UNCHANGED <<chatVars, apiVars, textVars>>

\* ------------------------------------------------------- update_balance
\* update_balance: the session check and float(data.get("balance", 0)).
UpdateBalance_Begin(r, hdr, field) ==
    Arrive(r, "update_balance", hdr, Get(field, PyNum(0)), 0, {})

\* update_balance: UPDATE users SET balance = ? WHERE id = ?, commit.
UpdateBalance_Write(r) ==
    LET q == req[r]
    IN  /\ Writes(r, "update_balance")
        /\ balance' = [balance EXCEPT ![q.user] = Bind(q.amount)]
        /\ req' = [req EXCEPT ![r] = Respond(q, 200)]
        /\ UNCHANGED <<stress_level, transactions, lock>>
        /\ UNCHANGED <<chatVars, apiVars, textVars>>

\* -------------------------------------------- register, login and logout
\* secrets.token_hex(16), 128 random bits: a token that no row holds.
Fresh(t) == \A u \in Accounts : token[u] # Tok(t)

\* register with a username that is not taken: INSERT INTO users (username,
\* password, token), commit; the row gets the next id and, in the other
\* columns, the defaults of the table.
Register(u, t) ==
    /\ token[u] = NoRow
    /\ \A v \in Accounts : v < u => token[v] # NoRow
    /\ Fresh(t)
    /\ lock = 0
    /\ token' = [token EXCEPT ![u] = Tok(t)]
    /\ balance' = [balance EXCEPT ![u] = Num(0)]
    /\ stress_level' = [stress_level EXCEPT ![u] = DefaultStress]
    /\ survey_data' = [survey_data EXCEPT ![u] = {}]
    /\ UNCHANGED <<transactions, lock, req>>
    /\ UNCHANGED <<ai_briefs, work_queue, api, last_brief>>
    /\ UNCHANGED <<chatVars, textVars>>

\* login with the name and the password of user u: a fresh token replaces
\* the stored one (UPDATE users SET token = ? WHERE id = ?, commit).
Login(u, t) ==
    /\ token[u] # NoRow
    /\ Fresh(t)
    /\ lock = 0
    /\ token' = [token EXCEPT ![u] = Tok(t)]
    /\ UNCHANGED <<survey_data, ai_briefs, work_queue, api, last_brief>>
    /\ UNCHANGED <<ledgerVars, chatVars, textVars>>

\* logout: the session check.
Logout_Begin(r, hdr) == Arrive(r, "logout", hdr, PyNum(0), 0, {})

\* logout: UPDATE users SET token = NULL WHERE id = ?, commit.
Logout_Write(r) ==
    LET q == req[r]
    IN  /\ Writes(r, "logout")
        /\ token' = [token EXCEPT ![q.user] = NoToken]
        /\ req' = [req EXCEPT ![r] = Respond(q, 200)]
        /\ UNCHANGED <<balance, stress_level, transactions, lock>>
        /\ UNCHANGED <<survey_data, ai_briefs, work_queue, api, last_brief>>
        /\ UNCHANGED <<chatVars, textVars>>

\* Requests that carry the token of a user.
Next ==
    \/ \E r \in Slots, hdr \in Headers, a \in Amounts : TransactionAttempt_Begin(r, hdr, a)
    \/ \E r \in Slots, hdr \in Headers, a \in Amounts : PurchaseExecute_Begin(r, hdr, a)
    \/ \E r \in Slots, hdr \in Headers, a \in Amounts : AddIncome_Begin(r, hdr, a)
    \/ \E r \in Slots : TransactionAttempt_StressBlock(r)
    \/ \E r \in Slots : TransactionAttempt_Update(r)
    \/ \E r \in Slots : TransactionAttempt_Insert(r)
    \/ \E r \in Slots : PurchaseExecute_Update(r)
    \/ \E r \in Slots : PurchaseExecute_Insert(r)
    \/ \E r \in Slots : AddIncome_Update(r)
    \/ \E r \in Slots : AddIncome_Insert(r)
    \/ \E r \in Slots : Commit(r)
    \/ \E r \in Slots : StorageFailure(r)
    \/ \E r \in Slots, hdr \in Headers, s \in StressLevels : UpdateStress_Begin(r, hdr, s)
    \/ \E r \in Slots : UpdateStress_Write(r)

Spec == Init /\ [][Next]_vars

\* Concurrent chat calls, as the worker pool runs them, over a database
\* whose write lock is free when a call writes.
NextChat ==
    \/ \E c \in Workers, u \in ChatUsers, t \in Topics, p \in Surveys : Chat_Begin(c, u, t, p)
    \/ \E c \in Workers : GetThread_Select(c)
    \/ \E c \in Workers : GetAssistant_Select(c)
    \/ \E c \in Workers, o \in CreateOutcomes : GetAssistant_Create(c, o)
    \/ \E c \in Workers : GetAssistant_Store(c, FALSE)
    \/ \E c \in Workers, o \in CreateOutcomes : GetThread_Create(c, o)
    \/ \E c \in Workers : GetThread_Store(c, FALSE)
    \/ \E c \in Workers, o \in PostOutcomes : Chat_SendPriming(c, o)
    \/ \E c \in Workers : Chat_MarkInitialized(c, FALSE)
    \/ \E c \in Workers, o \in PostOutcomes : Chat_SendMessage(c, o)

SpecChat == Init /\ [][NextChat]_vars

\* Chat calls made one after the other: a call begins when none is running.
ChatSeq_Begin(c, u, section, survey) ==
    /\ CallsInFlight = {}
    /\ ncalls < MaxSeqChats
    /\ StartCall(c, u, section, survey)

NextChatSeq ==
    \/ \E c \in Workers, u \in ChatUsers, t \in Topics, p \in Surveys : ChatSeq_Begin(c, u, t, p)
    \/ \E c \in Workers : GetThread_Select(c)
    \/ \E c \in Workers : GetAssistant_Select(c)
    \/ \E c \in Workers, o \in CreateOutcomes : GetAssistant_Create(c, o)
    \/ \E c \in Workers : GetAssistant_Store(c, FALSE)
    \/ \E c \in Workers, o \in CreateOutcomes : GetThread_Create(c, o)
    \/ \E c \in Workers : GetThread_Store(c, FALSE)
    \/ \E c \in Workers, o \in PostOutcomes : Chat_SendPriming(c, o)
    \/ \E c \in Workers : Chat_MarkInitialized(c, FALSE)
    \/ \E c \in Workers, o \in PostOutcomes : Chat_SendMessage(c, o)
    \/ \E r \in ApiSlots, hdr \in Headers : AiReset(r, hdr)

SpecChatSeq == Init /\ [][NextChatSeq]_vars

\* Chat calls made one after the other, with a remote service that can also
\* answer a create call with an error status and an id.
NextChatErr ==
    \/ \E c \in Workers, u \in ChatUsers, t \in Topics, p \in Surveys : ChatSeq_Begin(c, u, t, p)
    \/ \E c \in Workers : GetThread_Select(c)
    \/ \E c \in Workers : GetAssistant_Select(c)
    \/ \E c \in Workers, o \in CreateAnswers : GetAssistant_Create(c, o)
    \/ \E c \in Workers : GetAssistant_Store(c, FALSE)
    \/ \E c \in Workers, o \in CreateAnswers : GetThread_Create(c, o)
    \/ \E c \in Workers : GetThread_Store(c, FALSE)
    \/ \E c \in Workers, o \in PostOutcomes : Chat_SendPriming(c, o)
    \/ \E c \in Workers : Chat_MarkInitialized(c, FALSE)
    \/ \E c \in Workers, o \in PostOutcomes : Chat_SendMessage(c, o)

SpecChatErr == Init /\ [][NextChatErr]_vars

\* The server threads that take the requests of SpecApi, SpecBrief and
\* SpecPool: the requests come one after the other, the calls of those that
\* timed out go on beside the next.
PoolSlots == {1}

\* What the remote service answers to the calls of a task: to a create call
\* an id or nothing, to the message post a reply, a reply that starts with
\* APPROVE, or nothing.
PoolCreateOutcomes == {"ok", "exception"}
PoolReplyOutcomes == {"ok", "approve", "exception"}
\* The replies of a remote service that answers every call.
Replies == {"ok", "approve"}

\* The three endpoints that call chat_with_ai and the worker pool, for a
\* user who has saved the survey; the tasks of the pool run chat_with_ai
\* statement by statement, beside each other and beside the handlers, and a
\* write of a task or of ai_brief can find the database locked.
NextApi ==
    \/ /\ TasksBelow(MaxApiTasks)
       /\ \/ \E r \in PoolSlots, hdr \in Headers, t \in Topics :
                AiChat_Begin(r, hdr, t)
          \/ \E r \in PoolSlots, hdr \in Headers, t \in Topics, f \in BOOLEAN :
                AiBrief_Begin(r, hdr, t, f)
          \/ \E r \in PoolSlots, hdr \in Headers, n \in BOOLEAN :
                PurchaseEvaluate_Begin(r, hdr, n)
    \/ \E r \in PoolSlots : AiChat_Submit(r)
    \/ \E r \in PoolSlots, b \in BOOLEAN : AiChat_End(r, b)
    \/ \E r \in PoolSlots : AiBrief_Cache(r)
    \/ \E r \in PoolSlots : AiBrief_Submit(r)
    \/ \E r \in PoolSlots, b \in BOOLEAN : AiBrief_End(r, b)
    \/ \E r \in PoolSlots, l \in BOOLEAN : AiBrief_Store(r, l)
    \/ \E r \in PoolSlots : PurchaseEvaluate_Submit(r)
    \/ \E r \in PoolSlots, b \in BOOLEAN : PurchaseEvaluate_End(r, b)
    \/ \E c \in Workers : Task_Start(c)
    \/ \E c \in Workers : GetThread_Select(c)
    \/ \E c \in Workers : GetAssistant_Select(c)
    \/ \E c \in Workers, o \in PoolCreateOutcomes : GetAssistant_Create(c, o)
    \/ \E c \in Workers, l \in BOOLEAN : GetAssistant_Store(c, l)
    \/ \E c \in Workers, o \in PoolCreateOutcomes : GetThread_Create(c, o)
    \/ \E c \in Workers, l \in BOOLEAN : GetThread_Store(c, l)
    \/ \E c \in Workers : Chat_SendPriming(c, "ok")
    \/ \E c \in Workers, l \in BOOLEAN : Chat_MarkInitialized(c, l)
    \/ \E c \in Workers, o \in PoolReplyOutcomes : Chat_SendMessage(c, o)
    \/ \E c \in Workers : Task_Finish(c)
    \/ \E c \in Workers : Task_FinishAbandoned(c)

SpecApi == InitSurveyed /\ [][NextApi]_vars

\* The surveys a user has saved before asking for a brief: none, one with a
\* few answers, one whose financial goals are a list of numbers.
BriefSurveys == Surveys \cup {{"name", NumberGoals}}

\* A registered user with one of these surveys.
InitBrief ==
    /\ InitTables
    /\ InitTexts
    /\ \E s \in BriefSurveys :
          survey_data = [u \in Accounts |-> IF u \in Users THEN s ELSE {}]
    /\ balance = [u \in Accounts |-> IF u \in Users THEN Num(OpeningBalance)
                                      ELSE Num(0)]

\* The brief endpoint, one request after the other, the survey POST beside
\* it, and the worker pool with a remote service that answers every call.
NextBrief ==
    \/ /\ TasksBelow(MaxApiTasks)
       /\ \E r \in PoolSlots, hdr \in Headers, t \in Topics, f \in BOOLEAN :
             AiBrief_Begin(r, hdr, t, f)
    \/ \E r \in PoolSlots : AiBrief_Cache(r)
    \/ \E r \in PoolSlots : AiBrief_Submit(r)
    \/ \E r \in PoolSlots, b \in BOOLEAN : AiBrief_End(r, b)
    \/ \E r \in PoolSlots, l \in BOOLEAN : AiBrief_Store(r, l)
    \/ \E hdr \in Headers :
          Survey_Begin(1, hdr, {"name", "spending_profile"}, NotGiven, NoStress)
    \/ Survey_Write(1)
    \/ \E c \in Workers : Task_Start(c)
    \/ \E c \in Workers : GetThread_Select(c)
    \/ \E c \in Workers : GetAssistant_Select(c)
    \/ \E c \in Workers : GetAssistant_Create(c, "ok")
    \/ \E c \in Workers : GetAssistant_Store(c, FALSE)
    \/ \E c \in Workers : GetThread_Create(c, "ok")
    \/ \E c \in Workers : GetThread_Store(c, FALSE)
    \/ \E c \in Workers : Chat_SendPriming(c, "ok")
    \/ \E c \in Workers, l \in BOOLEAN : Chat_MarkInitialized(c, l)
    \/ \E c \in Workers, o \in Replies : Chat_SendMessage(c, o)
    \/ \E c \in Workers : Task_Finish(c)
    \/ \E c \in Workers : Task_FinishAbandoned(c)

SpecBrief == InitBrief /\ [][NextBrief]_vars

\* Sessions: requests with and without a valid token, registrations, logins
\* and logouts.
NextAuth ==
    \/ \E r \in Slots, h \in Endpoints, hdr \in Headers : Unauthorized(r, h, hdr)
    \/ \E u \in Accounts, t \in NewTokens : Register(u, t)
    \/ \E u \in Accounts, t \in NewTokens : Login(u, t)
    \/ \E r \in Slots, hdr \in Headers : Logout_Begin(r, hdr)
    \/ \E r \in Slots : Logout_Write(r)
    \/ \E r \in Slots, hdr \in Headers :
          Survey_Begin(r, hdr, {"name", "spending_profile"}, NotGiven, NoStress)
    \/ \E r \in Slots : Survey_Write(r)
    \/ \E r \in ApiSlots, hdr \in Headers : AiReset(r, hdr)
    \/ \E r \in Slots, hdr \in Headers : UpdateStress_Begin(r, hdr, 8)
    \/ \E r \in Slots : UpdateStress_Write(r)

SpecAuth == Init /\ [][NextAuth]_vars

\* The operations that write the users table or the ledger: purchases (of
\* 60) and income (of 50) through the ledger, the three that set the balance
\* directly, the stress update and logout.
NextBalance ==
    \/ \E r \in Slots, hdr \in Headers : PurchaseExecute_Begin(r, hdr, PyNum(60))
    \/ \E r \in Slots, hdr \in Headers : AddIncome_Begin(r, hdr, PyNum(50))
    \/ \E r \in Slots : PurchaseExecute_Update(r)
    \/ \E r \in Slots : PurchaseExecute_Insert(r)
    \/ \E r \in Slots : AddIncome_Update(r)
    \/ \E r \in Slots : AddIncome_Insert(r)
    \/ \E r \in Slots : Commit(r)
    \/ \E r \in Slots, hdr \in Headers, f \in BalanceFields : UpdateBalance_Begin(r, hdr, f)
    \/ \E r \in Slots : UpdateBalance_Write(r)
    \/ \E r \in Slots, hdr \in Headers, f \in SetFields : Onboarding_Begin(r, hdr, f)
    \/ \E r \in Slots : Onboarding_Write(r)
    \/ \E r \in Slots, hdr \in Headers, f \in SetFields, s \in StressFields :
          Survey_Begin(r, hdr, {"name", "spending_profile"}, f, s)
    \/ \E r \in Slots : Survey_Write(r)
    \/ \E r \in Slots, hdr \in Headers : UpdateStress_Begin(r, hdr, 8)
    \/ \E r \in Slots : UpdateStress_Write(r)
    \/ \E r \in Slots, hdr \in Headers : Logout_Begin(r, hdr)
    \/ \E r \in Slots : Logout_Write(r)

SpecBalance == Init /\ [][NextBalance]_vars

\* ===================================================================
\* Properties of the rule engine and the ledger (specification Spec)
\* ===================================================================
PurchaseHandlers == {"transaction_attempt", "purchase_execute"}

\* The rows of user u with status st, in log order.
RowsOf(u, st) == SelectSeq(transactions, LAMBDA x : x.user_id = u /\ x.status = st)

\* The sum of the amounts of a sequence of rows, in SQL arithmetic.
RECURSIVE Total(_)
Total(rows) == IF rows = <<>> THEN Num(0)
               ELSE SqlAdd(rows[1].amount, Total(Tail(rows)))

\* The same sum over the rows whose amount is a number.
NumericTotal(rows) == Total(SelectSeq(rows, LAMBDA x : ~x.amount.null))

\* The request of thread r ends in this step with the response code.
Ends(r, code) == ~Free(r) /\ req'[r].pc = "done" /\ req'[r].http = code

\* The transaction log grows by exactly this row in this step.
Appends(row) == transactions' = Append(transactions, row)

\* C1: for every user the stored balance is the opening balance minus the
\* amounts of the user's ALLOWED rows plus the amounts of the user's INCOME
\* rows, in every reachable state of every interleaving of purchases and
\* income additions; BLOCKED rows do not enter the sum.  (Sums are taken in
\* the arithmetic of the store, where NULL is absorbing.)
C1_BalanceIsOpeningMinusAllowedPlusIncome ==
    \A u \in Users :
        balance[u] = SqlAdd(SqlSub(Num(OpeningBalance), Total(RowsOf(u, "ALLOWED"))),
                            Total(RowsOf(u, "INCOME")))

\* A user with an ALLOWED, a BLOCKED and an INCOME row and a numeric balance.
C1_Witness ==
    \E u \in Users :
        /\ RowsOf(u, "ALLOWED") # <<>>
        /\ RowsOf(u, "BLOCKED") # <<>>
        /\ RowsOf(u, "INCOME") # <<>>
        /\ ~balance[u].null

\* C2: a purchase is ALLOWED only if the balance at the moment of its
\* conditional UPDATE is at least the amount, and BLOCKED for lack of funds
\* only if it is not; so no balance is ever negative and the ALLOWED amounts
\* of a user never exceed the funds the user had (opening balance plus
\* income): two purchases of 60 against 100 cannot both be ALLOWED.
C2_NoDoubleSpend ==
    /\ \A u \in Users :
         /\ ~balance[u].null => balance[u].v >= 0
         /\ ~Total(RowsOf(u, "ALLOWED")).null
         /\ Total(RowsOf(u, "ALLOWED")).v
              <= OpeningBalance + NumericTotal(RowsOf(u, "INCOME")).v
    /\ \A r \in Slots :
         LET q == req[r]
         IN  (q.pc \in {"insert", "commit"} /\ q.handler \in PurchaseHandlers
              /\ q.reason # "High stress impulse buy detected.")
             => /\ q.rowcount = 1 <=> SqlGe(balance[q.user], Bind(q.amount))
                /\ q.rowcount = 1 => q.tx_balance.v >= 0
                /\ q.pc = "commit" =>
                     (q.status = "ALLOWED" <=> q.rowcount = 1)

\* Two purchases of 60 by one user are in flight together against the stored
\* opening balance: one has run its UPDATE and holds the debit, the other is
\* about to run its own.
C2_Witness ==
    \E r1, r2 \in Slots :
        /\ r1 # r2 /\ req[r1].user = req[r2].user
        /\ req[r1].handler \in PurchaseHandlers /\ req[r2].handler \in PurchaseHandlers
        /\ req[r1].amount = PyNum(60) /\ req[r2].amount = PyNum(60)
        /\ req[r1].pc = "commit" /\ req[r1].status = "ALLOWED"
        /\ req[r2].pc = "rules"
        /\ balance[req[r1].user] = Num(OpeningBalance)
        /\ transactions = <<>>

\* The three rules of the specification, in order, on the stress level the
\* handler read, the amount and the stored balance.
ReferenceDecision(stress, amount, bal) ==
    IF stress > 7 /\ amount > 50
    THEN [status |-> "BLOCKED", reason |-> "High stress impulse buy detected.",
          new_balance |-> NULL]
    ELSE IF bal < amount
    THEN [status |-> "BLOCKED", reason |-> "Insufficient funds.",
          new_balance |-> NULL]
    ELSE [status |-> "ALLOWED", reason |-> "none", new_balance |-> Num(bal - amount)]

\* C3: the decision transaction_attempt returns for a positive amount is the
\* decision of the three-rule reference (stress rule first, then funds, then
\* ALLOWED with new_balance = balance - amount), and an ALLOWED decision
\* stores that new balance.
C3_DecisionIsReference ==
    [][\A r \in Slots :
         LET q == req[r]
         IN  (Ends(r, 200) /\ q.handler = "transaction_attempt"
              /\ ~q.amount.nan /\ ~balance[q.user].null)
             => LET d == ReferenceDecision(q.stress, q.amount.v, balance[q.user].v)
                IN  /\ q.status = d.status
                    /\ q.reason = d.reason
                    /\ q.new_balance = d.new_balance
                    /\ d.status = "ALLOWED" => balance'[q.user] = d.new_balance
       ]_vars

\* The stress rule answers although the balance does not cover the amount.
C3_Witness ==
    \E r \in Slots :
        /\ req[r].pc = "commit" /\ req[r].handler = "transaction_attempt"
        /\ req[r].reason = "High stress impulse buy detected."
        /\ ~req[r].amount.nan /\ ~balance[req[r].user].null
        /\ balance[req[r].user].v < req[r].amount.v
        /\ \E i \in 1..Len(transactions) : transactions[i].status = "ALLOWED"

\* C4: a purchase evaluation that returns a decision has appended exactly
\* one row, with the status of that decision, on the blocked paths too; and
\* no step changes or removes a row that is already in the log.
C4_OneRowPerDecision ==
    [][/\ \A r \in Slots :
            LET q == req[r]
            IN  (Ends(r, 200) /\ q.handler \in PurchaseHandlers)
                => /\ q.status \in {"ALLOWED", "BLOCKED"}
                   /\ Appends(Row(q.user, q.amount, q.status))
       /\ Len(transactions') >= Len(transactions)
       /\ SubSeq(transactions', 1, Len(transactions)) = transactions
      ]_vars

\* An allowed and two blocked decisions have each logged their row.
C4_Witness ==
    /\ Len(transactions) = 3
    /\ transactions[1].status = "ALLOWED"
    /\ transactions[2].status = "BLOCKED"
    /\ transactions[3].status = "BLOCKED"
    /\ \E r \in Slots : req[r].pc = "done" /\ req[r].http = 200

\* C5: a purchase whose decision is BLOCKED, by either rule, leaves every
\* stored balance as it was.
C5_BlockedKeepsBalance ==
    [][\A r \in Slots :
         (Ends(r, 200) /\ req[r].handler \in PurchaseHandlers
          /\ req[r].status = "BLOCKED")
         => balance' = balance
      ]_vars

\* A purchase was BLOCKED and the balance is still the opening balance.
C5_Witness ==
    /\ Len(transactions) = 2
    /\ \A i \in 1..2 : transactions[i].status = "BLOCKED"
    /\ \A u \in Users : balance[u] = Num(OpeningBalance)
    /\ \A r \in Slots : Free(r)

\* C6: the stored balance changes only in a step that also appends the one
\* row that accounts for it, an ALLOWED row is appended only in a step that
\* debits its amount, and a request that ends in a storage error (also after
\* its UPDATE or its INSERT) leaves the stored balance and log untouched.
C6_DebitAndRowAreAtomic ==
    [][/\ \A u \in Users :
            (balance'[u] # balance[u] \/
             (Len(transactions') > Len(transactions)
              /\ transactions'[Len(transactions')].user_id = u
              /\ transactions'[Len(transactions')].status = "ALLOWED"))
            => /\ Len(transactions') = Len(transactions) + 1
               /\ LET row == transactions'[Len(transactions')]
                  IN  /\ row.user_id = u
                      /\ \/ row.status = "ALLOWED" /\ balance'[u] = SqlSub(balance[u], row.amount)
                         \/ row.status = "INCOME" /\ balance'[u] = SqlAdd(balance[u], row.amount)
       /\ \A r \in Slots :
            Ends(r, 500) => balance' = balance /\ transactions' = transactions
      ]_vars

\* A request failed with its transaction open, and nothing of it is stored.
C6_Witness ==
    /\ \E r \in Slots : req[r].pc = "done" /\ req[r].http = 500 /\ req[r].rolled_back
    /\ transactions = <<>>
    /\ \A u \in Users : balance[u] = Num(OpeningBalance)

\* C7: a request whose amount is not a positive number is rejected and
\* changes no state: no row ever carries such an amount and no balance is
\* changed by one (so none stops being a number).
C7_InvalidAmountRejected ==
    /\ \A i \in 1..Len(transactions) :
         ~transactions[i].amount.null /\ transactions[i].amount.v > 0
    /\ \A u \in Users : ~balance[u].null

\* C8: add_income with a positive amount, whatever the stress level and the
\* balance, ends by adding exactly the amount to the stored balance and
\* appending exactly one INCOME row with that amount, in one step; it is
\* never turned down.
C8_IncomeCreditsAndLogs ==
    [][\A r \in Slots :
         LET q == req[r]
         IN  (~Free(r) /\ req'[r].pc = "done" /\ q.handler = "add_income"
              /\ PyGt(q.amount, 0))
             => /\ req'[r].http \in {200, 500}
                /\ req'[r].http = 200 =>
                     /\ balance'[q.user] = SqlAdd(balance[q.user], Num(q.amount.v))
                     /\ Appends([user_id |-> q.user, amount |-> Num(q.amount.v),
                                 status |-> "INCOME"])
                     /\ q.new_balance = balance'[q.user]
      ]_vars

\* Income was credited to a user under high stress with an empty balance.
C8_Witness ==
    \E u \in Users :
        /\ stress_level[u] > StressThreshold
        /\ Len(transactions) = 3
        /\ transactions[3] = [user_id |-> u, amount |-> Num(60), status |-> "INCOME"]
        /\ transactions[2].status = "ALLOWED"
        /\ balance[u] = Num(60)

\* ===================================================================
\* Properties of the AI session cache (SpecChatSeq, SpecChat)
\* ===================================================================
Pairs == ChatUsers \X Topics

\* The places in the message log of the priming messages sent for a pair.
Primings(u, t) ==
    {i \in 1..Len(posted) :
        posted[i].kind = "priming" /\ posted[i].user = u /\ posted[i].section = t}

\* C9: when Chat calls are made one after the other, a call that finds no
\* thread for its pair and is given a profile posts exactly one priming
\* message, to its new thread and right before the user's message; and no
\* later call for the pair posts a priming message again.
C9_FirstCallPrimesOnce ==
    /\ \A i \in 1..Len(posted) :
         (posted[i].kind = "message" /\ posted[i].fresh /\ posted[i].profile)
         => /\ i > 1
            /\ posted[i - 1].kind = "priming"
            /\ posted[i - 1].call = posted[i].call
            /\ posted[i - 1].thread_id = posted[i].thread_id
            /\ Cardinality({j \in 1..Len(posted) :
                   posted[j].kind = "priming" /\ posted[j].call = posted[i].call}) = 1
    /\ \A i, j \in 1..Len(posted) :
         (i < j /\ posted[i].kind = "priming"
          /\ posted[j].user = posted[i].user /\ posted[j].section = posted[i].section)
         => posted[j].kind = "message"

\* A first call primed and sent its message; the second call for the pair,
\* again with a profile, sent its message only, to the same thread.
C9_Witness ==
    /\ Len(posted) = 3
    /\ posted[1].kind = "priming" /\ posted[1].fresh /\ posted[1].call = 1
    /\ posted[2].kind = "message" /\ posted[2].call = 1
    /\ posted[3].kind = "message" /\ posted[3].call = 2 /\ posted[3].profile
    /\ posted[3].user = posted[1].user /\ posted[3].section = posted[1].section
    /\ posted[3].thread_id = posted[1].thread_id

\* C10: under any interleaving of Chat calls, at most one priming message is
\* ever sent for a (user, topic) pair.
C10_PrimingAtMostOncePerPair ==
    \A p \in Pairs : Cardinality(Primings(p[1], p[2])) <= 1

\* The fixed texts chat_with_ai returns in place of a reply.
FallbackTexts ==
    {"Sorry, the AI service is currently unavailable.",
     "Sorry, the AI returned an error. Please try again.",
     "Sorry, I couldn't process that right now.",
     "Sorry, the AI is temporarily unavailable. Please try again."}

\* The call of worker c returns in this step.
Returns(c) == call[c].pc \notin {"idle", "done"} /\ call'[c].pc = "done"

\* A remote step of the call that returns in this step has failed: its
\* create-assistant or create-thread call, its priming post, or its message
\* post.
RemoteStepFailed(c) ==
    \/ call[c].pc \in {"create_assistant", "create_thread"}
    \/ \E i \in 1..Len(posted') :
          posted'[i].call = call[c].no /\ ~posted'[i].accepted

\* C11: chat_with_ai never raises because of a remote failure: every call
\* returns a text, and a call in which create-assistant, create-thread, the
\* priming post or the message post failed returns one of the fixed fallback
\* texts.
C11_RemoteFailureGivesFallback ==
    [][\A c \in Workers :
         Returns(c) =>
           /\ call'[c].result \in FallbackTexts \cup {"reply"}
           /\ RemoteStepFailed(c) => call'[c].result \in FallbackTexts
      ]_vars

\* C12: a call of the ai_reset endpoint by a signed-in user deletes every
\* assistant binding and every thread binding, so that the next chat call
\* finds none and creates a new thread (and a new assistant).
C12_ResetDeletesBindings ==
    [][\A r \in ApiSlots, hdr \in Headers :
         AiReset(r, hdr) => ai_assistants' = {} /\ user_threads' = {}
      ]_vars

\* Thread r takes a request of the AI endpoints in this step.
ApiArrives(r) == ApiFree(r) /\ api'[r] # api[r]

\* The ai_brief request of thread r, without force, reads the stored brief
\* in this step.
ReadsStoredBrief(r) == api[r].pc = "cache" /\ api'[r] # api[r]

\* What the last ai_brief answer for the pair of the request of thread r
\* said.
LastBrief(r) == last_brief[<<api[r].user, api[r].section>>]

\* C13: an ai_brief request without force that follows an answer to another
\* request without force for the same (user, section) ends at its cache
\* read with the same text, read from the stored brief of the pair: no
\* chat_with_ai call is submitted, nothing is sent to the remote service and
\* the ai_briefs table is left as it is.
C13_SecondBriefServedFromStore ==
    [][\A r \in ApiSlots :
         (/\ ReadsStoredBrief(r)
          /\ LastBrief(r).text # "none"
          /\ ~LastBrief(r).force)
         => /\ CachedBrief(api[r].user, api[r].section) =
                  {[user_id |-> api[r].user, section |-> api[r].section,
                    brief |-> LastBrief(r).text]}
            /\ api'[r].pc = "done"
            /\ api'[r].http = 200
            /\ api'[r].body = LastBrief(r).text
            /\ work_queue' = work_queue
            /\ call' = call
            /\ ai_briefs' = ai_briefs
            /\ posted' = posted
      ]_vars

\* UNIQUE(user_id, section): no two rows of ai_briefs for one pair.
OneBriefPerPair(table) ==
    \A x, y \in table : (x.user_id = y.user_id /\ x.section = y.section) => x = y

\* The ai_brief request of thread r, with force set, ends in this step after
\* its chat_with_ai call.
ForcedBriefEnds(r) ==
    /\ api[r].pc = "store" /\ api[r].handler = "ai_brief" /\ api[r].force
    /\ api'[r].pc = "done"

\* The ai_brief request of thread r, at its submit, queues a chat_with_ai
\* call with its user, section and survey.
BriefSubmits(r) ==
    (api[r].pc = "submit" /\ api[r].handler = "ai_brief" /\ api'[r] # api[r])
    => /\ api'[r].pc = "waiting"
       /\ work_queue' = Append(work_queue, Task(r, api[r]))

\* A forced request, whatever the survey of its user, goes on to submit a
\* chat_with_ai call.
ForcedBriefSubmits(r, hdr, s) ==
    (ApiArrives(r) /\ AiBrief_Begin(r, hdr, s, TRUE)) => api'[r].pc = "submit"

\* The text a forced request returns after its call is the stored brief of
\* the pair from then on.
ForcedBriefOverwrites(r) ==
    ForcedBriefEnds(r) =>
        /\ api'[r].http = 200
        /\ {x \in ai_briefs' : x.user_id = api[r].user
                                /\ x.section = api[r].section} =
               {[user_id |-> api[r].user, section |-> api[r].section,
                 brief |-> api'[r].body]}

\* A request without force that follows the answer to a forced one gets the
\* text of that answer.
UnforcedFollowsForced(r) ==
    (ReadsStoredBrief(r) /\ LastBrief(r).force)
    => /\ api'[r].pc = "done"
       /\ api'[r].body = LastBrief(r).text

\* C14: an ai_brief request with force always submits a chat_with_ai call
\* and replaces the stored brief of (user, section) with the text it
\* returns, a following request without force returns exactly that text,
\* and ai_briefs holds at most one row per (user, section).
C14_ForceAlwaysRegenerates ==
    [][/\ OneBriefPerPair(ai_briefs')
       /\ \A r \in ApiSlots :
            /\ ForcedBriefOverwrites(r)
            /\ BriefSubmits(r)
            /\ UnforcedFollowsForced(r)
       /\ \A r \in ApiSlots, hdr \in Headers, s \in Topics :
            ForcedBriefSubmits(r, hdr, s)
      ]_vars

\* The assistants the remote service has created for a topic.
RemoteAssistantsOf(section) == {a \in remote_assistants : a.name = section}

\* C15: in calls made one after the other, at most one create-assistant
\* call succeeds per topic; once a call has stored the id, it is the stored
\* binding of the topic, and every thread of every user on the topic is
\* created under that one assistant.
C15_OneAssistantPerTopic ==
    \A s \in Topics :
      /\ Cardinality(RemoteAssistantsOf(s)) <= 1
      /\ \A a \in RemoteAssistantsOf(s) :
            \/ \E c \in Workers : call[c].pc = "store_assistant"
                                  /\ call[c].assistant_id = a.id
            \/ {x \in ai_assistants : x.name = s} =
                   {[name |-> s, assistant_id |-> a.id]}
      /\ \A t \in remote_threads :
            t.section = s => \E a \in RemoteAssistantsOf(s) : a.id = t.assistant_id

\* Two users have a thread on the topic, both under its one assistant, and
\* no call is running.
C15_Witness ==
    /\ CallsInFlight = {}
    /\ Cardinality(remote_assistants) = 1
    /\ \E t1, t2 \in remote_threads :
          /\ t1.user # t2.user
          /\ t1.section = t2.section
          /\ t1.assistant_id = t2.assistant_id
          /\ \E x \in ai_assistants : x.assistant_id = t1.assistant_id

\* The ids the remote service has returned for a topic and for a pair.
RemoteAssistantIds(section) == {a.id : a \in RemoteAssistantsOf(section)}
RemoteThreadIds(u, section) ==
    {t.id : t \in {x \in remote_threads : x.user = u /\ x.section = section}}

\* The binding tables are sound: one row at most per topic and per (user,
\* topic), each with an id the remote service returned for that key.
BindingsSound(assistants, threads) ==
    /\ \A x, y \in assistants : x.name = y.name => x = y
    /\ \A x, y \in threads :
          (x.user_id = y.user_id /\ x.assistant_name = y.assistant_name) => x = y
    /\ \A x \in assistants : x.assistant_id \in RemoteAssistantIds(x.name)
    /\ \A x \in threads : x.thread_id \in RemoteThreadIds(x.user_id, x.assistant_name)

\* C16: with concurrent calls racing to create the same binding, the tables
\* never hold more than one row per topic or per (user, topic), every stored
\* id is one the remote service returned for that key, and a call that
\* stores its id leaves it as the binding of the key (the last write wins).
C16_RacesKeepBindingsSound ==
    [][/\ BindingsSound(ai_assistants, user_threads)
       /\ \A c \in Workers :
            /\ (call[c].pc = "store_assistant" /\ call'[c].pc # "store_assistant")
                 => {x \in ai_assistants' : x.name = call[c].section} =
                        {[name |-> call[c].section,
                          assistant_id |-> call[c].assistant_id]}
            /\ (call[c].pc = "store_thread" /\ call'[c].pc # "store_thread")
                 => {x.thread_id : x \in
                        {y \in user_threads' : y.user_id = call[c].user
                             /\ y.assistant_name = call[c].section}} =
                        {call[c].thread_id}
      ]_vars

\* Two calls raced for one pair: the remote service made two threads for it,
\* one row is stored for it, and both calls are over.
C16_Witness ==
    /\ CallsInFlight = {}
    /\ \E u \in ChatUsers, s \in Topics :
          /\ Cardinality(RemoteThreadIds(u, s)) = 2
          /\ Cardinality(RemoteAssistantIds(s)) = 2
          /\ Cardinality({x \in user_threads : x.user_id = u
                                               /\ x.assistant_name = s}) = 1

\* C17: at any time at most max_workers (4) chat_with_ai executions are in
\* progress, however many chat, brief and purchase-evaluate requests wait
\* and however many calls abandoned after a timeout are still running.
C17_AtMostFourChatsRunning == Running <= MaxWorkers

\* All four workers are busy, one of them at least for a request that gave
\* up, and a request waits for a task that is still queued.
C17_Witness ==
    /\ Running = MaxWorkers
    /\ Orphans # {}
    /\ \E r \in ApiSlots : /\ api[r].pc = "waiting"
                           /\ api[r].future = "queued"
                           /\ \E i \in 1..Len(work_queue) : work_queue[i].owner = r

\* The wait of thread r for its future times out in this step: the handler
\* goes on while its chat_with_ai call has not finished.
TimesOut(r) ==
    /\ api[r].pc = "waiting"
    /\ api[r].future \in {"queued", "running"}
    /\ api'[r].pc \in {"store", "done"}

\* The call the handler of thread r gave up on is not waited for and not
\* cancelled: it stays queued, or keeps its worker, with nobody to read it.
AbandonedCallGoesOn(r) ==
    /\ Running' = Running
    /\ Len(work_queue') = Len(work_queue)
    /\ \A i \in 1..Len(work_queue) :
          work_queue'[i] = IF work_queue[i].owner = r
                           THEN [work_queue[i] EXCEPT !.owner = 0]
                           ELSE work_queue[i]
    /\ \A c \in Workers :
          call'[c] = IF call[c].owner = r THEN [call[c] EXCEPT !.owner = 0]
                     ELSE call[c]
    /\ api[r].future = "running" => \E c \in Orphans' : call[c].owner = r

\* The ai_brief request of thread r answers in this step, after a wait that
\* left it with the fixed text of its except clause.
BriefFallbackAnswers(r) ==
    /\ api[r].pc = "store"
    /\ api[r].result = BriefTroubleText
    /\ api'[r].pc = "done"

\* C18: when the chat_with_ai call of an ai_chat, ai_brief or
\* purchase_evaluate request does not finish within the timeout, the caller
\* gets the fixed fallback text and no error, and the request goes on
\* without waiting for the abandoned call, which is not cancelled.
C18_TimeoutGivesFallbackText ==
    [][\A r \in ApiSlots :
         /\ TimesOut(r) =>
               /\ AbandonedCallGoesOn(r)
               /\ IF api[r].handler = "ai_brief"
                  THEN /\ api'[r].pc = "store"
                       /\ api'[r].result = BriefTroubleText
                  ELSE /\ api'[r].http = 200
                       /\ api'[r].body = ChatTimeoutText
         /\ BriefFallbackAnswers(r) =>
               /\ api'[r].http = 200
               /\ api'[r].body = BriefTroubleText
      ]_vars

\* The request of thread r ends in this step, after its chat_with_ai call.
HandlerEnds(r) == api[r].pc \in {"waiting", "store"} /\ api'[r].pc = "done"

\* chat_with_ai has returned, to the handler of thread r, the fixed text it
\* returns when no thread could be had (assistant or thread creation failed).
NoThreadForCall(r) ==
    /\ api[r].future = "returned"
    /\ api[r].result = "Sorry, the AI service is currently unavailable."

\* The write of the brief of the request of thread r fails in this step on a
\* locked database, which is no answer of the remote service: a 500, and
\* the stored briefs stay.
BriefWriteFails(r) ==
    /\ api[r].handler = "ai_brief"
    /\ api'[r].http = 500
    /\ ai_briefs' = ai_briefs

\* C19: the chat and brief endpoints never answer with an error whatever
\* the remote service does (a brief whose write fails on a locked database
\* aside), and purchase_evaluate, when no thread could be had for the user,
\* answers with an explicit failure and no verdict.
C19_NoThreadFailsEvaluation ==
    [][\A r \in ApiSlots :
         HandlerEnds(r) =>
           /\ api[r].handler \in {"ai_chat", "ai_brief"} =>
                 api'[r].http = 200 \/ BriefWriteFails(r)
           /\ (api[r].handler = "purchase_evaluate" /\ NoThreadForCall(r)) =>
                 /\ api'[r].http # 200
                 /\ api'[r].verdict = "none"
      ]_vars

\* The request carries no Authorization header, or a text that, without
\* "Bearer ", is the stored token of no user.
NoSuchUser(hdr) ==
    \/ ~hdr.present
    \/ \A u \in Accounts : token[u].null \/ token[u].v # hdr.rest

\* Everything the server and the remote service store.
Stored ==
    <<balance, stress_level, transactions, lock, token, survey_data,
      ai_assistants, user_threads, ai_briefs, work_queue, call,
      remote_ids, remote_assistants, remote_threads, posted>>

\* C20: a request to any endpoint that asks for a session, with no
\* Authorization header or with a token that matches no user, is answered
\* 401 and changes nothing: no balance, stress level, ledger row, survey,
\* token or AI table, and nothing is submitted to the pool or sent to the
\* remote service; no handler goes past the check with such a header.
C20_NoSessionNoEffect ==
    [][\A hdr \in Headers :
         NoSuchUser(hdr) =>
           /\ \A r \in Slots :
                 (req'[r] # req[r] /\ \E h \in Endpoints : Unauthorized(r, h, hdr))
                 => /\ req'[r].pc = "done"
                    /\ req'[r].http = 401
                    /\ Stored' = Stored
                    /\ api' = api
           /\ \A r \in Slots :
                 /\ ~Logout_Begin(r, hdr)
                 /\ \A body \in Surveys :
                       ~Survey_Begin(r, hdr, body, NotGiven, NoStress)
                 /\ \A s \in StressLevels : ~UpdateStress_Begin(r, hdr, s)
                 /\ \A f \in BalanceFields : ~UpdateBalance_Begin(r, hdr, f)
           /\ \A r \in ApiSlots : ~AiReset(r, hdr)
      ]_vars

\* A request was answered 401 and the token of user 1 is NULL: after the
\* logout the token the user registered with matches nobody.
C20_Witness ==
    /\ req[1].pc = "done" /\ req[1].http = 401
    /\ token[1] = NoToken

\* ===================================================================
\* censor_pii (app.py), applied by ai_chat to the message of the request
\* ===================================================================
\* A text is kept word by word, a word character by character; the words of
\* a message are separated by single spaces.
MaxWords == 3

\* The words a message is made of: John, Smith, Al (a name of two letters),
\* met (no name), j@x.io (an email address).
Words ==
    {<<"J", "o", "h", "n">>, <<"S", "m", "i", "t", "h">>, <<"A", "l">>,
     <<"m", "e", "t">>, <<"j", "@", "x", ".", "i", "o">>}

\* The messages a request body can carry, the empty one among them.
Messages == UNION {[1..n -> Words] : n \in 0..MaxWords}

\* The character classes of the two patterns: [A-Z], [a-z], \w.
UpperCase == {"J", "S", "A"}
LowerCase == {"o", "h", "n", "m", "i", "t", "l", "e", "j", "x"}
WordChars == UpperCase \cup LowerCase

\* The placeholders, as words of the censored text.
Redacted == <<"[REDACTED]">>
EmailMark == <<"[EMAIL]">>

\* (?:\s+[A-Z][a-z]{2,}){2,}: the least number of words that must follow the
\* first one.
MoreWordsAtLeast == 2

\* [A-Z][a-z]{2,} between two word boundaries.
ProperNoun(w) ==
    /\ Len(w) >= 3
    /\ w[1] \in UpperCase
    /\ \A i \in 2..Len(w) : w[i] \in LowerCase

\* [\w.+-]+@[\w-]+\.[\w.-]+ over a whole word.
IsEmail(w) ==
    \E i, j \in 1..Len(w) :
        /\ 1 < i /\ i + 1 < j /\ j < Len(w)
        /\ w[i] = "@" /\ w[j] = "."
        /\ \A k \in 1..(i - 1) : w[k] \in WordChars \cup {".", "+", "-"}
        /\ \A k \in (i + 1)..(j - 1) : w[k] \in WordChars \cup {"-"}
        /\ \A k \in (j + 1)..Len(w) : w[k] \in WordChars \cup {".", "-"}

\* The number of words in a row, from word i on, that match [A-Z][a-z]{2,}.
RECURSIVE RunLength(_, _)
RunLength(ws, i) ==
    IF i > Len(ws) \/ ~ProperNoun(ws[i]) THEN 0
    ELSE 1 + RunLength(ws, i + 1)

\* re.sub of the first pattern: from left to right, the longest run of
\* matching words, if it has one word and MoreWordsAtLeast more, becomes one
\* placeholder.
RECURSIVE RedactNames(_)
RedactNames(ws) ==
    IF ws = <<>> THEN <<>>
    ELSE LET n == RunLength(ws, 1)
         IN  IF n >= 1 + MoreWordsAtLeast
             THEN <<Redacted>> \o RedactNames(SubSeq(ws, n + 1, Len(ws)))
             ELSE <<ws[1]>> \o RedactNames(Tail(ws))

\* re.sub of the second pattern.
RedactEmails(ws) ==
    [i \in 1..Len(ws) |-> IF IsEmail(ws[i]) THEN EmailMark ELSE ws[i]]

\* censor_pii: an empty text is returned as it is.
CensorPii(ws) == IF ws = <<>> THEN ws ELSE RedactEmails(RedactNames(ws))

\* ai_chat: censored_message = censor_pii(message), the text that is handed
\* to chat_with_ai.
AiChat_Censor ==
    /\ censored_message = <<>>
    /\ censored_message' = CensorPii(message)
    /\ UNCHANGED <<message, raw, cleaned>>
    /\ UNCHANGED <<ledgerVars, chatVars, apiVars>>

\* A chat request with any message of the bounded set.
InitPii ==
    /\ InitTables
    /\ survey_data = [u \in Accounts |-> {}]
    /\ balance = [u \in Accounts |-> IF u \in Users THEN Num(OpeningBalance)
                                      ELSE Num(0)]
    /\ message \in Messages
    /\ censored_message = <<>>
    /\ raw = <<>>
    /\ cleaned = <<>>

NextPii == AiChat_Censor

SpecPii == InitPii /\ [][NextPii]_vars

\* A capitalized word: a capital letter followed by small letters.
Capitalized(w) ==
    /\ Len(w) >= 2
    /\ w[1] \in UpperCase
    /\ \A i \in 2..Len(w) : w[i] \in LowerCase

\* C21: the text that ai_chat forwards to chat_with_ai holds no two
\* capitalized words in a row (every sequence of two or more of them was
\* replaced by [REDACTED]) and no email address (each was replaced by
\* [EMAIL]).
C21_NamesAndEmailsRedacted ==
    censored_message # <<>> =>
        /\ \A i \in 1..(Len(censored_message) - 1) :
              ~(Capitalized(censored_message[i])
                /\ Capitalized(censored_message[i + 1]))
        /\ \A i \in 1..Len(censored_message) : ~IsEmail(censored_message[i])

\* ===================================================================
\* send_message (backboard_service.py): the markup stripped from a reply
\* ===================================================================
\* A reply text is kept character by character.
MaxChars == 4

\* The characters the short replies are made of: the markup characters, a
\* blank, a line feed, a letter.
Chars == {"*", "_", "#", "-", " ", "\n", "a"}

\* "**bold**\n# Heading\n- item"
MarkedReply ==
    <<"*", "*", "b", "o", "l", "d", "*", "*", "\n",
      "#", " ", "H", "e", "a", "d", "i", "n", "g", "\n",
      "-", " ", "i", "t", "e", "m">>

\* The texts the remote service can answer with (an answer without text is
\* SendResult("empty")).
RawReplies == UNION {[1..n -> Chars] : n \in 1..MaxChars} \cup {MarkedReply}

\* \s among the characters above.
Whitespace == {" ", "\n"}

\* The text d stands in s at place j.
Occurs(s, d, j) ==
    /\ j + Len(d) - 1 <= Len(s)
    /\ \A k \in 1..Len(d) : s[j + k - 1] = d[k]

\* d(.+?)d opened at place i: the places where d can close it, one character
\* at least after the opening one and none of them a line feed.
Closers(s, d, i) ==
    {j \in (i + Len(d) + 1)..Len(s) :
        /\ Occurs(s, d, j)
        /\ \A k \in (i + Len(d))..(j - 1) : s[k] # "\n"}

\* re.sub(d(.+?)d, \1) from place i on: the lazy group ends at the first
\* closing d; the search goes on behind it.
RECURSIVE Unwrap(_, _, _)
Unwrap(s, d, i) ==
    IF i > Len(s) THEN <<>>
    ELSE IF Occurs(s, d, i) /\ Closers(s, d, i) # {}
    THEN LET j == CHOOSE x \in Closers(s, d, i) :
                      \A y \in Closers(s, d, i) : x <= y
         IN  SubSeq(s, i + Len(d), j - 1) \o Unwrap(s, d, j + Len(d))
    ELSE <<s[i]>> \o Unwrap(s, d, i + 1)

\* The number of characters of a class in a row from place i on.
RECURSIVE RunOf(_, _, _)
RunOf(s, i, class) ==
    IF i > Len(s) \/ s[i] \notin class THEN 0
    ELSE 1 + RunOf(s, i + 1, class)

\* ^ with re.MULTILINE
LineStart(s, i) == i = 1 \/ s[i - 1] = "\n"

\* re.sub(^marks{1,most}\s+, '', flags=re.MULTILINE) from place i on: the
\* marks must be followed by white space, which is taken as far as it goes.
RECURSIVE StripPrefix(_, _, _, _)
StripPrefix(s, marks, most, i) ==
    IF i > Len(s) THEN <<>>
    ELSE LET h == RunOf(s, i, marks)
             w == RunOf(s, i + h, Whitespace)
         IN  IF LineStart(s, i) /\ h >= 1 /\ h <= most /\ w >= 1
             THEN StripPrefix(s, marks, most, i + h + w)
             ELSE <<s[i]>> \o StripPrefix(s, marks, most, i + 1)

\* The five substitutions of send_message.
Bold(s) == Unwrap(s, <<"*", "*">>, 1)
BoldAlt(s) == Unwrap(s, <<"_", "_">>, 1)
Italic(s) == Unwrap(s, <<"*">>, 1)
Headings(s) == StripPrefix(s, {"#"}, 6, 1)
BulletPoints(s) == StripPrefix(s, {"-", "*"}, 1, 1)

\* send_message: cleaned, from raw, in the order of the source.
Cleaned(s) == BulletPoints(Headings(Italic(BoldAlt(Bold(s)))))

\* send_message, for a 200 answer with a text: return cleaned.
SendMessage_Clean ==
    /\ cleaned = <<>>
    /\ cleaned' = Cleaned(raw)
    /\ UNCHANGED <<message, censored_message, raw>>
    /\ UNCHANGED <<ledgerVars, chatVars, apiVars>>

\* A message post that the remote service answers with any of the texts.
InitMarkdown ==
    /\ InitTables
    /\ survey_data = [u \in Accounts |-> {}]
    /\ balance = [u \in Accounts |-> IF u \in Users THEN Num(OpeningBalance)
                                      ELSE Num(0)]
    /\ message = <<>>
    /\ censored_message = <<>>
    /\ raw \in RawReplies
    /\ cleaned = <<>>

NextMarkdown == SendMessage_Clean

SpecMarkdown == InitMarkdown /\ [][NextMarkdown]_vars

\* A text keeps markup: bold (**x** or __x__), italic (*x*), a heading
\* prefix (# to ######, then white space, at the start of a line) or a list
\* item prefix (- or *, then white space, at the start of a line).
KeepsMarkup(s) ==
    \/ Bold(s) # s
    \/ BoldAlt(s) # s
    \/ Italic(s) # s
    \/ Headings(s) # s
    \/ BulletPoints(s) # s

\* C22: the reply "**bold**\n# Heading\n- item" is returned as
\* "bold\nHeading\nitem", and no text returned by send_message for a reply
\* keeps bold, italic, heading-prefix or list-item-prefix markup.
C22_NoMarkupIsReturned ==
    cleaned # <<>> =>
        /\ raw = MarkedReply =>
              cleaned = <<"b", "o", "l", "d", "\n",
                          "H", "e", "a", "d", "i", "n", "g", "\n",
                          "i", "t", "e", "m">>
        /\ ~KeepsMarkup(cleaned)

\* The remote service accepted a priming message posted to the thread.
PrimedRemotely(log, thread_id) ==
    \E i \in 1..Len(log) : /\ log[i].kind = "priming"
                           /\ log[i].thread_id = thread_id
                           /\ log[i].accepted

\* C23: in every state a thread binding with initialized set names a thread
\* that has received a priming message the remote service accepted, and a
\* binding that is initialized stays so in every step but a reset.
C23_InitializedOnlyAfterAcceptedPriming ==
    [][/\ \A x \in user_threads' :
            x.initialized => PrimedRemotely(posted', x.thread_id)
       /\ \A x \in user_threads :
            x.initialized =>
               \/ \E y \in user_threads' : SamePair(x, y) /\ y.initialized
               \/ \E r \in ApiSlots : ApiArrives(r) /\ api'[r].handler = "ai_reset"
      ]_vars

\* C24: whenever a purchase (transaction_attempt or purchase_execute) commits
\* an ALLOWED row with an amount above 50 together with its debit, the stored
\* stress level of the user is at most 7 at that moment, under every
\* interleaving with update_stress.
C24_NoAllowedImpulseBuyUnderStress ==
    [][\A r \in Slots :
         LET q == req[r]
         IN  (/\ Ends(r, 200)
              /\ q.handler \in PurchaseHandlers
              /\ q.status = "ALLOWED"
              /\ PyGt(q.amount, AmountThreshold))
             => ~(stress_level[q.user] > StressThreshold)
      ]_vars

\* The call of worker c returns, in this step, the text chat_with_ai returns
\* when get_or_create_thread gave it no thread id.
ReturnsUnavailable(c) ==
    Returns(c) /\ call'[c].result = "Sorry, the AI service is currently unavailable."

\* The call of worker c goes from one place to another in this step.
Moves(c, from, to) ==
    (call[c].pc = from /\ call'[c] # call[c]) => call'[c].pc = to

\* C25: in calls made one after the other, a call returns the unavailability
\* text only out of a failed create-assistant or create-thread call, and then
\* it has stored nothing: both tables are as they were and hold no row for
\* the pair (and none for the topic, when the assistant could not be
\* created); a call that finds no row for its key goes on to the create call
\* for it; and no row ever holds an empty id.
C25_FailedCreationStoresNothing ==
    [][/\ \A c \in Workers :
            /\ ReturnsUnavailable(c) =>
                  /\ call[c].pc \in {"create_assistant", "create_thread"}
                  /\ ai_assistants' = ai_assistants
                  /\ user_threads' = user_threads
                  /\ {x \in user_threads' : x.user_id = call[c].user
                          /\ x.assistant_name = call[c].section} = {}
                  /\ call[c].pc = "create_assistant" =>
                        {x \in ai_assistants' : x.name = call[c].section} = {}
            /\ {x \in user_threads : x.user_id = call[c].user
                    /\ x.assistant_name = call[c].section} = {}
                 => Moves(c, "get_thread", "get_assistant")
            /\ IF {x \in ai_assistants : x.name = call[c].section} = {}
               THEN Moves(c, "get_assistant", "create_assistant")
               ELSE Moves(c, "get_assistant", "create_thread")
       /\ \A x \in ai_assistants' : x.assistant_id # 0
       /\ \A x \in user_threads' : x.thread_id # 0
      ]_vars

\* The first call is over and has left nothing behind: no row, no message,
\* no remote object; the second call, finding no assistant for the topic, is
\* about to ask the remote service for one again.
C25_Witness ==
    /\ ncalls = 2
    /\ \E c \in Workers : call[c].pc = "create_assistant" /\ call[c].no = 2
    /\ ai_assistants = {} /\ user_threads = {}
    /\ posted = <<>>
    /\ remote_ids = 0

\* A remote operation of the call of worker c fails in this step: a create
\* call that creates nothing, a post that is not accepted.
RemoteOperationFails(c) ==
    \/ /\ call[c].pc \in {"create_assistant", "create_thread"}
       /\ call'[c] # call[c]
       /\ remote_assistants' = remote_assistants
       /\ remote_threads' = remote_threads
    \/ /\ call[c].pc \in {"send_priming", "send_message"}
       /\ Len(posted') = Len(posted) + 1
       /\ ~posted'[Len(posted')].accepted

\* C26: a remote operation (create assistant, create thread, post message)
\* that fails, by a non-success status or a transport failure, ends the call
\* at once with one of the fixed fallback texts (it is not tried again); no
\* id out of a failed answer is ever stored as a binding, and the reply text
\* is returned only out of an accepted post.
C26_RemoteFailureEndsCall ==
    [][/\ \A c \in Workers :
            /\ RemoteOperationFails(c) =>
                  Returns(c) /\ call'[c].result \in FallbackTexts
            /\ (Returns(c) /\ call'[c].result = "reply") =>
                  (Len(posted') = Len(posted) + 1 /\ posted'[Len(posted')].accepted)
       /\ \A x \in ai_assistants' : AssistantExists(x.assistant_id)'
       /\ \A x \in user_threads' : ThreadExists(x.thread_id)'
      ]_vars

\* The places of a call where it asks for, or stores, a new assistant or a
\* new thread.
CreatePlaces ==
    {"get_assistant", "create_assistant", "store_assistant", "create_thread",
     "store_thread"}

\* C27: in calls made one after the other, without a reset, the remote
\* service creates at most one thread per (user, topic); a binding, once
\* stored, keeps its thread id; a call that finds the binding of its pair
\* takes the thread id from it and goes on to post, never to a create call;
\* and all the messages of a pair are posted to one thread id.
C27_ThreadCreatedOncePerPair ==
    [][/\ \A p \in Pairs : Cardinality(RemoteThreadIds(p[1], p[2])') <= 1
       /\ \A x \in user_threads :
            \E y \in user_threads' : SamePair(x, y) /\ y.thread_id = x.thread_id
       /\ \A c \in Workers :
            LET rows == {x \in user_threads : x.user_id = call[c].user
                             /\ x.assistant_name = call[c].section}
            IN  /\ (call[c].pc = "get_thread" /\ call'[c] # call[c] /\ rows # {})
                     => /\ call'[c].pc \in {"send_priming", "send_message"}
                        /\ \E x \in rows : call'[c].thread_id = x.thread_id
                /\ call'[c].saw = "row" => call'[c].pc \notin CreatePlaces
       /\ \A i, j \in 1..Len(posted') :
            (posted'[i].user = posted'[j].user
             /\ posted'[i].section = posted'[j].section)
            => posted'[i].thread_id = posted'[j].thread_id
      ]_vars

\* Three calls for one pair have posted, all to the one thread the remote
\* service has ever created, under its one assistant.
C27_Witness ==
    /\ CallsInFlight = {}
    /\ Cardinality(remote_threads) = 1
    /\ Cardinality(remote_assistants) = 1
    /\ \E u \in ChatUsers :
          /\ {posted[i].call : i \in 1..Len(posted)} = {1, 2, 3}
          /\ \A i \in 1..Len(posted) : posted[i].user = u
          /\ \A t \in remote_threads :
                \A i \in 1..Len(posted) : posted[i].thread_id = t.id

\* The assistant ids under which the remote service created the thread.
CreatedUnder(thread_id) ==
    {t.assistant_id : t \in {x \in remote_threads : x.id = thread_id}}

\* C28: in every state, also after calls that raced to create, each thread
\* binding of a topic names a thread that was created under the assistant
\* id that is bound to the topic in that state (so there is such a binding).
C28_ThreadsUnderBoundAssistant ==
    \A x \in user_threads :
        \E a \in ai_assistants :
            /\ a.name = x.assistant_name
            /\ a.assistant_id \in CreatedUnder(x.thread_id)

\* The headers that get_user_from_token takes for user u, in the state
\* after this step.
AuthenticatesNext(u) == {hdr \in Headers : GetUserFromToken(hdr)' = u}

\* C29: at any time at most one token authenticates as a user; after a
\* login only the token that login issued does, so none issued before it
\* (by the registration or an earlier login); after the write of a logout
\* none does, and none does until the next login (for an account that was
\* not there, until its registration).
C29_OneValidTokenPerUser ==
    [][\A u \in Accounts :
         /\ Cardinality({hdr.rest : hdr \in AuthenticatesNext(u)}) <= 1
         /\ \A t \in NewTokens :
               Login(u, t) => \A hdr \in AuthenticatesNext(u) : hdr.rest = t
         /\ \A r \in Slots :
               (req[r].user = u /\ Logout_Write(r)) => AuthenticatesNext(u) = {}
         /\ (AuthenticatesNext(u) # {} /\ \A hdr \in Headers : GetUserFromToken(hdr) # u)
               => \E t \in NewTokens : Login(u, t) \/ Register(u, t)
      ]_vars

\* User 1 has logged in again and holds a new token; a request that came
\* without a valid token was answered 401.
C29_Witness ==
    /\ token[1] = Tok("t2")
    /\ req[1].pc = "done" /\ req[1].http = 401
    /\ survey_data[1] # {}

\* ===================================================================
\* The operations that set the balance directly (specification SpecBalance)
\* ===================================================================

\* A purchase or an income commits and answers 200.
LedgerCommit ==
    \E r \in Slots :
        /\ Ends(r, 200)
        /\ req[r].handler \in PurchaseHandlers \cup {"add_income"}

\* The handlers that set the balance directly.
DirectHandlers == {"update_balance", "onboarding", "survey"}

\* Thread r takes up update_balance, onboarding or a survey POST whose body
\* has the balance field f.
DirectBegin(r, f) ==
    \E hdr \in Headers :
        \/ UpdateBalance_Begin(r, hdr, f)
        \/ Onboarding_Begin(r, hdr, f)
        \/ \E s \in StressFields :
              Survey_Begin(r, hdr, {"name", "spending_profile"}, f, s)

\* Thread r writes the balance of its update_balance, onboarding or survey
\* POST and commits.
DirectWrite(r) ==
    /\ req[r].pc = "write"
    /\ req[r].handler \in DirectHandlers
    /\ req'[r].pc = "done"
    /\ req'[r].http = 200

\* The stored balance b reads back as the number a of a request body.
ReadsBackAs(b, a) == ~b.null /\ a = PyNum(b.v)

\* C30: update_balance, onboarding and the survey POST overwrite the stored
\* balance with the balance of the body, or with 0 when the body has none,
\* and leave the transaction log as it was; a step that changes a balance is
\* one of these three or the commit of a purchase or an income, and only
\* such a commit appends a row.
C30_DirectWritesOverwriteAndLogNothing ==
    [][/\ \A r \in Slots :
            /\ (req'[r].pc = "write" /\ req'[r].handler \in DirectHandlers
                    /\ req'[r] # req[r])
                  => \A f \in BalanceFields :
                        DirectBegin(r, f) =>
                           req'[r].amount = (IF f.given THEN f.value ELSE PyNum(0))
            /\ DirectWrite(r)
                  => /\ ReadsBackAs(balance'[req[r].user], req[r].amount)
                     /\ \A u \in Accounts \ {req[r].user} : balance'[u] = balance[u]
                     /\ transactions' = transactions
       /\ balance' # balance
          => \/ LedgerCommit
             \/ \E r \in Slots : DirectWrite(r)
       /\ transactions' # transactions => LedgerCommit
      ]_vars

\* The worker pool under more tasks than it has threads: chat, forced brief
\* and evaluation requests, one at a time, some given up by their handler
\* while their call goes on, and a remote service that answers no call.
NextPool ==
    \/ /\ TasksBelow(MaxTasks)
       /\ \/ \E r \in PoolSlots, hdr \in Headers, t \in Topics :
                AiChat_Begin(r, hdr, t)
          \/ \E r \in PoolSlots, hdr \in Headers, t \in Topics :
                AiBrief_Begin(r, hdr, t, TRUE)
          \/ \E r \in PoolSlots, hdr \in Headers :
                PurchaseEvaluate_Begin(r, hdr, TRUE)
    \/ \E r \in PoolSlots : AiChat_Submit(r)
    \/ \E r \in PoolSlots : AiBrief_Submit(r)
    \/ \E r \in PoolSlots : PurchaseEvaluate_Submit(r)
    \/ \E r \in PoolSlots, b \in BOOLEAN : AiChat_End(r, b)
    \/ \E r \in PoolSlots, b \in BOOLEAN : AiBrief_End(r, b)
    \/ \E r \in PoolSlots : AiBrief_Store(r, FALSE)
    \/ \E r \in PoolSlots, b \in BOOLEAN : PurchaseEvaluate_End(r, b)
    \/ \E c \in Workers : Task_Start(c)
    \/ \E c \in Workers : GetThread_Select(c)
    \/ \E c \in Workers : GetAssistant_Select(c)
    \/ \E c \in Workers : GetAssistant_Create(c, "exception")
    \/ \E c \in Workers : Task_Finish(c)
    \/ \E c \in Workers : Task_FinishAbandoned(c)

\* A user who has saved a survey with texts as goals and a balance of 0.
InitPool ==
    /\ InitSurveyed
    /\ NumberGoals \notin survey_data[1]
    /\ balance[1] = Num(0)

SpecPool == InitPool /\ [][NextPool]_vars
====
